---- MODULE Spec2Model ----
(***************************************************************************)
(* Model of the contextual status pipeline of gnome-at-a-glance:           *)
(* ClaudeRateLimit (daily quota + response cache), DataCollector's two     *)
(* advisory calls, AtAGlanceIndicator's update cycle and its priority      *)
(* arbiter (_getMostUrgentDisplay / _getFallbackDisplay), and of           *)
(* CalendarDataCollector (calendar-integration.js): its cache, the two     *)
(* tiers of _collectCalendarData, the parsers and the exclusion filter.    *)
(*                                                                         *)
(* Time is the wall clock in whole seconds (Date.now() / 1000).  JS        *)
(* strings are sequences of string tokens, so that '' is <<>> and a        *)
(* template literal is a concatenation.  A JS value that may be null is a  *)
(* record [null, v].                                                       *)
(***************************************************************************)
EXTENDS Integers, Sequences, FiniteSets, TLC

VARIABLES
    now,        \* wall clock, seconds
    usageFile,  \* contents of claude-usage.json
    ioOK,       \* whether the usage file can be read and written
    cache,      \* ClaudeRateLimit.cache : key -> [data, timestamp]
    result,     \* what the last direct call on the rate limiter returned
    recorded,   \* number of recordRequest calls made by this process
    stored,     \* what setCached was last given for each key, and when
    hasKey,     \* a Claude API key is configured
    cyc,        \* the update cycles started so far: id -> frame of _updateData
    started,    \* number of cycles started
    nextTimer,  \* when the 60 s update timer fires next
    buttonText, \* the panel status line
    lastData,   \* this._lastData, and the cycle that assigned it
    published,  \* how buttonText was last written: by which cycle, and how
    collector,  \* DataCollector.calendarCollector and its call in progress
    meeting     \* the event last given to meetingAssistant, and its answer

vars ==
    <<now, usageFile, ioOK, cache, result, recorded, stored, hasKey, cyc,
      started, nextTimer, buttonText, lastData, published, collector,
      meeting>>

limiterVars ==
    <<now, usageFile, ioOK, cache, result, recorded>>

pipelineVars ==
    <<hasKey, cyc, started, nextTimer, buttonText, lastData, published,
      collector, meeting>>

----------------------------------------------------------------------------
(* Program constants *)

maxDailyRequests ==
    100

cacheTimeoutMinutes ==
    60

\* Math.floor(now.getMinutes() / 5) * 5 and Math.floor(now.getMinutes() / 10) * 10
PrioritizationWindowMinutes ==
    5

InsightsWindowMinutes ==
    10

SecondsPerMinute ==
    60

SecondsPerDay ==
    86400

UpdateIntervalSeconds ==
    60

LowBatteryThreshold ==
    20

LowRemainingWarning ==
    3

DocumentedDailyLimit ==
    24

ImminentMinutes ==
    15

UpcomingMinutes ==
    240

(* Bounds of the model *)

MaxCycles ==
    2

MaxRecorded ==
    3

\* the number of URLs in the text of an event given to meetingAssistant
MaxLinks ==
    2

MaxLifetimes ==
    1

----------------------------------------------------------------------------
(* JS values *)

Null ==
    [null |-> TRUE, v |-> <<>>]

Val(x) ==
    [null |-> FALSE, v |-> x]

\* JS truthiness of a string-or-null / object-or-null value
Truthy(j) ==
    ~j.null /\ Len(j.v) > 0

\* Date.prototype.toDateString: the local calendar day
toDateString(t) ==
    t \div SecondsPerDay

getHours(t) ==
    (t % SecondsPerDay) \div 3600

getMinutes(t) ==
    (t % 3600) \div SecondsPerMinute

----------------------------------------------------------------------------
(* ClaudeRateLimit *)

(* claude-usage.json is a record: whether the file exists, whether it can   *)
(* be replaced, whether its content parses, and the content.                *)

ZeroUsage(today) ==
    [exists |-> TRUE, writable |-> TRUE, valid |-> TRUE, date |-> today,
     requests |-> 0, insights |-> 0, prioritization |-> 0]

\* no claude-usage.json
MissingUsage ==
    [exists |-> FALSE, writable |-> TRUE, valid |-> FALSE, date |-> 0,
     requests |-> 0, insights |-> 0, prioritization |-> 0]

ensureUsageFileReset(file, io, t) ==
    IF io /\ file.writable THEN ZeroUsage(toDateString(t)) ELSE file

\* ensureUsageFile: a missing file is created with zeros, errors swallowed
ensureUsageFile(file, io, t) ==
    IF io /\ ~file.exists THEN ZeroUsage(toDateString(t)) ELSE file

getUsageDataClosed(file, io, t) ==
    IF io /\ file.exists /\ file.valid
    THEN IF file.date # toDateString(t) THEN ZeroUsage(toDateString(t)) ELSE file
    ELSE [ZeroUsage(toDateString(t)) EXCEPT !.requests = maxDailyRequests]

\* getUsageData: the stored record, or zeros on a new day or a storage error
getUsageData(file, io, t) ==
    IF io /\ file.exists /\ file.valid
    THEN IF file.date # toDateString(t) THEN ZeroUsage(toDateString(t)) ELSE file
    ELSE ZeroUsage(toDateString(t))

\* saveUsageData: replace the file, errors swallowed
saveUsageData(file, io, data) ==
    IF io /\ file.writable THEN data ELSE file

canMakeRequestOff(file, io, t) ==
    maxDailyRequests - getUsageData(file, io, t).requests >= 0

canMakeRequest(file, io, t) ==
    LET usage == getUsageData(file, io, t)
        remaining == maxDailyRequests - usage.requests
    IN  IF remaining <= 0 THEN FALSE ELSE TRUE

\* the low-remaining warning written to the log by canMakeRequest
warnsLowRemaining(file, io, t) ==
    LET remaining == maxDailyRequests - getUsageData(file, io, t).requests
    IN  remaining > 0 /\ remaining <= LowRemainingWarning

\* recordRequest: the file after the call
recordRequest(file, io, t, type) ==
    LET usage == getUsageData(file, io, t)
        bumped == [usage EXCEPT
                     !.requests = @ + 1,
                     !.insights = IF type = "insights" THEN @ + 1 ELSE @,
                     !.prioritization =
                         IF type = "prioritization" THEN @ + 1 ELSE @,
                     !.date = toDateString(t)]
    IN  saveUsageData(file, io, bumped)

cacheFreshLate(entry, t) ==
    (t - entry.timestamp) <= cacheTimeoutMinutes * SecondsPerMinute

\* ageMinutes < this.cacheTimeoutMinutes
cacheFresh(entry, t) ==
    (t - entry.timestamp) < cacheTimeoutMinutes * SecondsPerMinute

\* getCached: the value returned
getCachedValue(c, key, t) ==
    IF key \in DOMAIN c /\ cacheFresh(c[key], t)
    THEN Val(c[key].data)
    ELSE Null

\* getCached: the map after the call (an expired entry is deleted)
getCachedMap(c, key, t) ==
    IF key \in DOMAIN c /\ ~cacheFresh(c[key], t)
    THEN [k \in DOMAIN c \ {key} |-> c[k]]
    ELSE c

\* setCached: the map after the call
setCached(c, key, data, t) ==
    [k \in DOMAIN c \cup {key} |->
        IF k = key THEN [data |-> data, timestamp |-> t] ELSE c[k]]

EmptyMap ==
    [k \in {} |-> 0]

----------------------------------------------------------------------------
(* The data of one cycle *)

\* a calendar event as the arbiter reads it: title, start (seconds), location
\* and end, here an hour after the start
Event(title, start, location) ==
    [title |-> title, start |-> start, location |-> location,
     end |-> start + 60 * SecondsPerMinute]

Task(title, priority) ==
    [title |-> title, priority |-> priority]

\* String.prototype.includes on the weather conditions of the model
includes(condition, word) ==
    CASE condition = "Thunderstorm" -> word = "Thunder"
      [] condition = "Rain" -> word = "Rain"
      [] condition = "Snow" -> word = "Snow"
      [] condition = "Fog" -> word = "Fog"
      [] condition = "Clouds" -> word = "Cloud"
      [] condition = "Clear" -> word = "Clear"
      [] condition = "Sunny" -> word = "Sunny"
      [] condition = "Rain, Thunderstorm" -> word \in {"Rain", "Thunder"}
      [] condition = "Snow, Rain" -> word \in {"Snow", "Rain"}
      [] condition = "Fog, Snow" -> word \in {"Fog", "Snow"}
      [] condition = "Clouds, Fog" -> word \in {"Cloud", "Fog"}
      [] condition = "Clear, Clouds" -> word \in {"Clear", "Cloud"}
      [] OTHER -> FALSE

\* location.toLowerCase().includes('virtual')
includesVirtual(location) ==
    \E i \in 1..Len(location) : location[i] \in {"virtual", "Virtual"}

filter(tasks, priority) ==
    SelectSeq(tasks, LAMBDA t : t.priority = priority)

\* Math.floor((startTime - now) / (1000 * 60))
minutesUntil(start, t) ==
    (start - t) \div SecondsPerMinute

\* toLocaleTimeString([], {hour: '2-digit', minute: '2-digit'})
timeString(t) ==
    <<ToString(getHours(t)), ":", ToString(getMinutes(t))>>

weatherIconRainFirst(condition) ==
    IF includes(condition, "Rain") THEN ":rain:"
    ELSE IF includes(condition, "Thunder") THEN ":thunder:"
    ELSE IF includes(condition, "Snow") THEN ":snow:"
    ELSE IF includes(condition, "Fog") THEN ":fog:"
    ELSE IF includes(condition, "Cloud") THEN ":cloud:"
    ELSE IF includes(condition, "Clear") \/ includes(condition, "Sunny")
         THEN ":sun:"
    ELSE ":partly:"

\* the if / else if chain on condition.includes(...) of _getFallbackDisplay
weatherIcon(condition) ==
    IF includes(condition, "Thunder") THEN ":thunder:"
    ELSE IF includes(condition, "Rain") THEN ":rain:"
    ELSE IF includes(condition, "Snow") THEN ":snow:"
    ELSE IF includes(condition, "Fog") THEN ":fog:"
    ELSE IF includes(condition, "Cloud") THEN ":cloud:"
    ELSE IF includes(condition, "Clear") \/ includes(condition, "Sunny")
         THEN ":sun:"
    ELSE ":partly:"

weatherLine(weather) ==
    <<weatherIcon(weather.condition), " ", weather.temp, "F ",
      weather.condition>>

moreSuffixCount(n) ==
    IF n > 1 THEN <<" (+", ToString(n), ")">> ELSE <<>>

\* `(+N)` suffix of a task line
moreSuffix(n) ==
    IF n > 1 THEN <<" (+", ToString(n - 1), ")">> ELSE <<>>

----------------------------------------------------------------------------
(* AtAGlanceIndicator._getFallbackDisplay, evaluated at time t *)

fallbackTasksFirst(data, t) ==
    LET urgentTasks == filter(data.tasks, "high")
    IN  IF Len(urgentTasks) > 0
        THEN <<":zap: ">> \o urgentTasks[1].title
        ELSE weatherLine(data.weather)

_getFallbackDisplay(data, t) ==
    LET hasEvent == Len(data.calendar) > 0
        nextEvent == data.calendar[1]
        mins == minutesUntil(nextEvent.start, t)
        urgentTasks == filter(data.tasks, "high")
        mediumTasks == filter(data.tasks, "medium")
    IN  IF hasEvent /\ mins <= 0
        THEN <<":siren: ">> \o nextEvent.title \o <<" starting">>
        ELSE IF hasEvent /\ mins <= ImminentMinutes
        THEN <<":siren: ">> \o nextEvent.title
                 \o <<" in ", ToString(mins), "min">>
        ELSE IF Len(urgentTasks) > 0
        THEN <<(IF Len(urgentTasks) > 1 THEN ":target: " ELSE ":zap: ")>>
                 \o urgentTasks[1].title \o moreSuffix(Len(urgentTasks))
        ELSE IF hasEvent /\ mins <= UpcomingMinutes
        THEN IF Truthy(nextEvent.location)
                  /\ includesVirtual(nextEvent.location.v)
             THEN <<":camera: ">> \o nextEvent.title \o <<" @ ">>
                      \o timeString(nextEvent.start)
             ELSE IF Truthy(nextEvent.location)
             THEN <<":pin: ">> \o nextEvent.title \o <<" @ ">>
                      \o timeString(nextEvent.start)
             ELSE <<":calendar: ">> \o nextEvent.title \o <<" @ ">>
                      \o timeString(nextEvent.start)
        ELSE IF Len(mediumTasks) > 0
        THEN <<":clipboard: ">> \o mediumTasks[1].title
                 \o moreSuffix(Len(mediumTasks))
        ELSE IF hasEvent
                  /\ toDateString(nextEvent.start) = toDateString(t)
        THEN <<":calendar: ">> \o nextEvent.title \o <<" @ ">>
                 \o timeString(nextEvent.start)
        ELSE weatherLine(data.weather)

----------------------------------------------------------------------------
(* AtAGlanceIndicator._getMostUrgentDisplay *)

\* data.system.battery !== 'N/A' && data.system.battery < 20
lowBattery(system) ==
    system.battery.kind = "number" /\ system.battery.n < LowBatteryThreshold

batteryText(battery) ==
    IF battery.kind = "number" THEN ToString(battery.n) ELSE battery.kind

criticalNone(system) ==
    Null

\* the part of _getMostUrgentDisplay before the advisory call: the alert
\* line, or null when there is no critical system issue
critical(system) ==
    IF lowBattery(system)
    THEN Val(<<":battery: ", batteryText(system.battery), "% battery">>)
    ELSE IF system.nixosIssues > 0
    THEN Val(<<":warning: ">> \o system.nixosStatus)
    ELSE Null

afterAdvisoryUnchecked(data, aiResult, t) ==
    IF ~aiResult.null THEN aiResult.v ELSE _getFallbackDisplay(data, t)

\* the part of _getMostUrgentDisplay after the advisory call has returned
afterAdvisory(data, aiResult, t) ==
    IF Truthy(aiResult) THEN aiResult.v ELSE _getFallbackDisplay(data, t)


----------------------------------------------------------------------------
(* DataCollector: the collaborators' results *)

\* How a call ends: it returns a value, or an exception leaves it
Returned(v) ==
    [threw |-> FALSE, value |-> v]

Thrown ==
    [threw |-> TRUE, value |-> <<>>]

getWeatherUncaught(resp) ==
    IF resp.status = "ok"
    THEN Returned([temp |-> resp.temp, condition |-> resp.condition])
    ELSE Thrown

\* getWeather: how it ends for a response of the weather service
getWeather(resp) ==
    CASE resp.status = "nokey" ->
            Returned([temp |-> "--", condition |-> "No API Key"])
      [] resp.status = "ok" ->
            Returned([temp |-> resp.temp, condition |-> resp.condition])
      [] OTHER ->
            Returned([temp |-> "--", condition |-> "Error"])

\* task.priority >= 3 ? 'high' : task.priority === 2 ? 'medium' : 'low'
todoistPriority(p) ==
    IF p >= 3 THEN "high" ELSE IF p = 2 THEN "medium" ELSE "low"

\* getTasks: how it ends for a response of the task service
getTasks(resp) ==
    CASE resp.status = "nokey" ->
            Returned(
              <<Task(<<"Configure Todoist API key for task sync">>, "high"),
                Task(<<"Set up integrations">>, "medium")>>)
      [] resp.status = "ok" ->
            Returned(
              IF Len(resp.items) > 0
              THEN [i \in 1..Len(resp.items) |->
                      Task(resp.items[i].content,
                           todoistPriority(resp.items[i].priority))]
              ELSE <<Task(<<"No tasks found">>, "low")>>)
      [] resp.status = "httpError" ->
            Returned(<<Task(<<"Todoist API error: ", "500">>, "high")>>)
      [] OTHER ->
            Returned(
              <<Task(<<"Todoist service unavailable">>, "medium"),
                Task(<<"Using offline mode">>, "low")>>)

\* getSystemInfo: battery file and `systemctl --failed`
getSystemInfo(probe) ==
    IF probe.status = "exception"
    THEN Returned([nixosIssues |-> 0, nixosStatus |-> <<"Error">>,
                   battery |-> [kind |-> "Error", n |-> 0]])
    ELSE Returned([nixosIssues |-> probe.failed,
                   nixosStatus |->
                       IF probe.failed > 0
                       THEN <<ToString(probe.failed), " failed services">>
                       ELSE <<"OK">>,
                   battery |-> probe.battery])

----------------------------------------------------------------------------
(* DataCollector.getClaudeInsights / getClaudePrioritization *)

timeContext(t) ==
    IF getHours(t) < 12 THEN "morning"
    ELSE IF getHours(t) < 17 THEN "afternoon"
    ELSE "evening"

insightsKey(data, t) ==
    <<"insights", timeContext(t),
      IF Len(data.calendar) > 0 THEN "true" ELSE "false",
      ToString(Len(filter(data.tasks, "high"))), data.weather.temp,
      ToString(toDateString(t)), ToString(getHours(t)),
      ToString((getMinutes(t) \div InsightsWindowMinutes)
                  * InsightsWindowMinutes)>>

prioritizationKeyHourly(data, t) ==
    <<"priority", timeContext(t), ToString(Len(data.calendar)),
      ToString(Len(filter(data.tasks, "high"))), data.weather.temp,
      ToString(toDateString(t)), ToString(getHours(t))>>

prioritizationKey(data, t) ==
    <<"priority", timeContext(t), ToString(Len(data.calendar)),
      ToString(Len(filter(data.tasks, "high"))), data.weather.temp,
      ToString(toDateString(t)), ToString(getHours(t)),
      ToString((getMinutes(t) \div PrioritizationWindowMinutes)
                  * PrioritizationWindowMinutes)>>

\* one rate-limiter operation or send of an advisory call, with what it
\* returned
Op(type, name, ret) ==
    <<type, name, ret>>

checkOp(type, file, io, t) ==
    Op(type, "canMakeRequest",
       IF canMakeRequest(file, io, t) THEN "true" ELSE "false")

attemptRecordAfterReply(type, key, keyed, file, io, c, t) ==
    LET cached == getCachedValue(c, key, t)
    IN  IF ~keyed
        THEN [outcome |-> "nokey", value |-> Null, file |-> file,
              cache |-> c, ops |-> <<>>]
        ELSE IF Truthy(cached)
        THEN [outcome |-> "hit", value |-> cached, file |-> file,
              cache |-> c, ops |-> <<Op(type, "getCached", "hit")>>]
        ELSE [outcome |-> "sent", value |-> Null, file |-> file,
              cache |-> getCachedMap(c, key, t),
              ops |-> <<Op(type, "getCached", "miss"),
                        checkOp(type, file, io, t), Op(type, "send", "")>>]

\* an advisory call that counts a request for every answer, cached or not
attemptCountingAnswers(type, key, keyed, file, io, c, t) ==
    LET cached == getCachedValue(c, key, t)
        c1 == getCachedMap(c, key, t)
    IN  IF ~keyed
        THEN [outcome |-> "nokey", value |-> Null, file |-> file,
              cache |-> c, ops |-> <<>>]
        ELSE IF Truthy(cached)
        THEN [outcome |-> "hit", value |-> cached,
              file |-> recordRequest(file, io, t, type),
              cache |-> c1, ops |-> <<Op(type, "getCached", "hit")>>]
        ELSE IF ~canMakeRequest(file, io, t)
        THEN [outcome |-> "limited", value |-> Null, file |-> file,
              cache |-> c1,
              ops |-> <<Op(type, "getCached", "miss"),
                        checkOp(type, file, io, t)>>]
        ELSE [outcome |-> "sent", value |-> Null,
              file |-> recordRequest(file, io, t, type), cache |-> c1,
              ops |-> <<Op(type, "getCached", "miss"),
                        checkOp(type, file, io, t),
                        Op(type, "recordRequest", ""), Op(type, "send", "")>>]

\* The synchronous head of an advisory call, from the API-key test to the
\* send: what it decides, the usage file and the cache it leaves, and the
\* rate-limiter operations it performs, in order.
attempt(type, key, keyed, file, io, c, t) ==
    LET cached == getCachedValue(c, key, t)
        c1 == getCachedMap(c, key, t)
    IN  IF ~keyed
        THEN [outcome |-> "nokey", value |-> Null, file |-> file,
              cache |-> c, ops |-> <<>>]
        ELSE IF Truthy(cached)
        THEN [outcome |-> "hit", value |-> cached, file |-> file,
              cache |-> c1, ops |-> <<Op(type, "getCached", "hit")>>]
        ELSE IF ~canMakeRequest(file, io, t)
        THEN [outcome |-> "limited", value |-> Null, file |-> file,
              cache |-> c1,
              ops |-> <<Op(type, "getCached", "miss"),
                        checkOp(type, file, io, t)>>]
        ELSE [outcome |-> "sent", value |-> Null,
              file |-> recordRequest(file, io, t, type), cache |-> c1,
              ops |-> <<Op(type, "getCached", "miss"),
                        checkOp(type, file, io, t),
                        Op(type, "recordRequest", ""), Op(type, "send", "")>>]

\* how many recordRequest calls a sequence of operations holds
recordsIn(ops) ==
    Len(SelectSeq(ops, LAMBDA o : o[2] = "recordRequest"))

\* String.prototype.trim on a token sequence
RECURSIVE trim(_)
trim(s) ==
    IF Len(s) > 0 /\ Head(s) = " " THEN trim(Tail(s))
    ELSE IF Len(s) > 0 /\ s[Len(s)] = " " THEN trim(SubSeq(s, 1, Len(s) - 1))
    ELSE s

\* content.replace(/^["']|["']$/g, '')
stripQuotes(s) ==
    LET a == IF Len(s) > 0 /\ Head(s) = "'" THEN Tail(s) ELSE s
    IN  IF Len(a) > 0 /\ a[Len(a)] = "'" THEN SubSeq(a, 1, Len(a) - 1) ELSE a

prioritizationValueLoud(reply) ==
    IF reply.status = "ok" THEN Val(stripQuotes(trim(reply.content)))
    ELSE Val(<<"Claude API error">>)

\* getClaudePrioritization after the reply: the value returned
prioritizationValue(reply) ==
    IF reply.status = "ok" THEN Val(stripQuotes(trim(reply.content))) ELSE Null

\* getClaudeInsights after the reply: the object returned
insightsValue(reply) ==
    CASE reply.status = "ok" ->
            <<trim(reply.content), <<":robot: AI Analysis Complete">>>>
      [] reply.status = "httpError" ->
            <<<<"Claude API error: ", "500">>, <<"Check API key and credits">>>>
      [] OTHER ->
            <<<<"Claude service unavailable">>, <<"AI insights disabled">>>>

----------------------------------------------------------------------------
(* calendar-integration.js: EventFilter and the parsers of                  *)
(* CalendarDataCollector.  A text is a sequence of words; a calendar event  *)
(* is [title, description, start, location, confidence], start in seconds   *)
(* and confidence in tenths.                                                *)

\* this.cacheTimeout = 5 * 60 * 1000, in seconds
calendarCacheTimeout ==
    300

\* confidence: 1.0 of calendar-server events, in tenths
ServerConfidence ==
    10

\* confidence: 0.8 of ICS events, in tenths
ICSConfidence ==
    8

\* .slice(0, 15)
MaxReturnedEvents ==
    15

\* nextWeek.setDate(nextWeek.getDate() + 7)
HorizonDays ==
    7

\* thirtyDaysLater = now + (30 * 24 * 60 * 60)
ServerRangeDays ==
    30

\* nextWeek of _filterAndProcessEvents, at time t
nextWeek(t) ==
    (toDateString(t) + HorizonDays) * SecondsPerDay

CalendarEvent(title, description, start, end, location, confidence) ==
    [title |-> title, description |-> description, start |-> start,
     end |-> end, location |-> location, confidence |-> confidence]

\* String.prototype.toLowerCase on the words of the model
toLowerCase(word) ==
    CASE word = "Birthday" -> "birthday"
      [] word = "Birthdays" -> "birthdays"
      [] word = "Holiday" -> "holiday"
      [] word = "Wedding" -> "wedding"
      [] word = "New" -> "new"
      [] word = "Year" -> "year"
      [] word = "Labor" -> "labor"
      [] word = "Day" -> "day"
      [] word = "Standup" -> "standup"
      [] OTHER -> word

\* the three patterns of EventFilter, \b(...)\b: whole words and pairs of
\* adjacent words
PatternWords ==
    {"holiday", "christmas", "thanksgiving", "easter", "birthday", "born",
     "b-day", "bday", "anniversary", "wedding", "married"}

PatternPairs ==
    {<<"new", "year">>, <<"memorial", "day">>, <<"labor", "day">>,
     <<"independence", "day">>, <<"veterans", "day">>}

shouldExcludeNothing(event) ==
    FALSE

\* EventFilter.shouldExclude: the patterns tested on
\* `${title} ${description}`.toLowerCase()
shouldExclude(event) ==
    LET joined == event.title \o <<" ">> \o event.description
        text == [i \in 1..Len(joined) |-> toLowerCase(joined[i])]
    IN  \/ \E i \in DOMAIN text : text[i] \in PatternWords
        \/ \E i \in 1..(Len(text) - 2) :
              /\ text[i + 1] = " "
              /\ <<text[i], text[i + 2]>> \in PatternPairs

\* a DTSTART value: 'YYYYMMDD' (kind "date"), 'YYYYMMDDTHHMMSS' (kind
\* "datetime"), eight characters that are no date (kind "invalid"), any other
\* non-empty text (kind "other"), '' (kind "empty"), or no DTSTART line at
\* all (kind "absent")
Stamp(kind, t) ==
    [kind |-> kind, t |-> t]

NoStamp ==
    Stamp("absent", 0)

\* _parseICSDateTime, at time t: the Date, or Invalid Date
_parseICSDateTime(stamp, t) ==
    CASE stamp.kind = "date" ->
            Returned(toDateString(stamp.t) * SecondsPerDay)
      [] stamp.kind = "datetime" -> Returned(stamp.t)
      [] stamp.kind = "invalid" -> Thrown
      [] OTHER -> Returned(t)

\* a line of calendar text, `KEY:value`
Line(key, text, stamp) ==
    [key |-> key, text |-> text, stamp |-> stamp]

BeginEvent ==
    Line("BEGIN", <<"VEVENT">>, NoStamp)

EndEvent ==
    Line("END", <<"VEVENT">>, NoStamp)

\* currentEvent = {}
EmptyBlock ==
    [open |-> TRUE, summary |-> Null, dtstart |-> NoStamp,
     dtend |-> NoStamp, description |-> <<>>, location |-> Null]

NoBlock ==
    [EmptyBlock EXCEPT !.open = FALSE]

blockAcceptedUntitled(block) ==
    block.dtstart.kind \notin {"absent", "empty"}

\* currentEvent.summary && currentEvent.dtstart
blockAccepted(block) ==
    Truthy(block.summary) /\ block.dtstart.kind \notin {"absent", "empty"}

\* _processICSEvent, at time t; toISOString throws on an Invalid Date
_processICSEvent(block, t) ==
    LET startTime == _parseICSDateTime(block.dtstart, t)
        endTime == _parseICSDateTime(IF block.dtend.kind
                                           \in {"absent", "empty"}
                                        THEN block.dtstart
                                        ELSE block.dtend, t)
    IN  IF startTime.threw \/ endTime.threw
        THEN Thrown
        ELSE Returned(CalendarEvent(block.summary.v, block.description,
                                    startTime.value, endTime.value,
                                    IF Truthy(block.location)
                                    THEN block.location ELSE Null,
                                    ICSConfidence))

\* the switch of _parseICSContent on one property line
withProperty(block, line) ==
    CASE line.key = "SUMMARY" -> [block EXCEPT !.summary = Val(line.text)]
      [] line.key = "DESCRIPTION" -> [block EXCEPT !.description = line.text]
      [] line.key = "DTSTART" -> [block EXCEPT !.dtstart = line.stamp]
      [] line.key = "DTEND" -> [block EXCEPT !.dtend = line.stamp]
      [] line.key = "LOCATION" -> [block EXCEPT !.location = Val(line.text)]
      [] OTHER -> block

\* the loop of _parseICSContent over the remaining lines
RECURSIVE parseLines(_, _, _, _)
parseLines(lines, block, events, t) ==
    IF lines = <<>>
    THEN Returned(events)
    ELSE LET line == Head(lines)
         IN  IF line = BeginEvent
             THEN parseLines(Tail(lines), EmptyBlock, events, t)
             ELSE IF line = EndEvent /\ block.open
             THEN IF blockAccepted(block)
                  THEN IF _processICSEvent(block, t).threw
                       THEN Thrown
                       ELSE parseLines(Tail(lines), NoBlock,
                                       Append(events,
                                              _processICSEvent(block, t).value),
                                       t)
                  ELSE parseLines(Tail(lines), NoBlock, events, t)
             ELSE IF block.open
             THEN parseLines(Tail(lines), withProperty(block, line), events, t)
             ELSE parseLines(Tail(lines), block, events, t)

\* _parseICSContent, at time t
_parseICSContent(icsContent, t) ==
    parseLines(icsContent, NoBlock, <<>>, t)

\* an event tuple of the calendar server: summary, start_time, properties;
\* its end_time is the start_time
ServerTuple(summary, start, description, location) ==
    [summary |-> summary, start |-> start, end |-> start,
     description |-> description, location |-> location]

\* _processCalendarServerEvent: the events it yields (none for null)
_processCalendarServerEvent(eventData) ==
    IF Len(eventData.summary) = 0 \/ trim(eventData.summary) = <<>>
    THEN <<>>
    ELSE IF eventData.start.kind # "number" \/ eventData.end.kind # "number"
    THEN <<>>
    ELSE <<CalendarEvent(eventData.summary, eventData.description,
                         eventData.start.t, eventData.end.t,
                         eventData.location,
                         ServerConfidence)>>

----------------------------------------------------------------------------
(* CalendarDataCollector: _filterAndProcessEvents and the two tiers of      *)
(* _collectCalendarData                                                     *)

\* new Date(now.getFullYear(), now.getMonth(), now.getDate()), in seconds
midnightBefore(t) ==
    toDateString(t) * SecondsPerDay

compareLatestFirst(a, b, t) ==
    b.start - a.start

\* the comparator of the sort in _filterAndProcessEvents, at time t
compare(a, b, t) ==
    LET today == midnightBefore(t)
        tomorrow == today + SecondsPerDay
        isAToday == a.start >= today /\ a.start < tomorrow
        isBToday == b.start >= today /\ b.start < tomorrow
        isATomorrow == a.start >= tomorrow /\ a.start < tomorrow + SecondsPerDay
        isBTomorrow == b.start >= tomorrow /\ b.start < tomorrow + SecondsPerDay
    IN  IF isAToday /\ ~isBToday THEN 0 - 1
        ELSE IF isBToday /\ ~isAToday THEN 1
        ELSE IF isATomorrow /\ ~isBTomorrow /\ ~isBToday THEN 0 - 1
        ELSE IF isBTomorrow /\ ~isATomorrow /\ ~isAToday THEN 1
        ELSE a.start - b.start

\* one step of Array.prototype.sort (stable): e goes before the first
\* element it compares less than
RECURSIVE insertSorted(_, _, _)
insertSorted(sorted, e, t) ==
    IF sorted = <<>>
    THEN <<e>>
    ELSE IF compare(e, Head(sorted), t) < 0
    THEN <<e>> \o sorted
    ELSE <<Head(sorted)>> \o insertSorted(Tail(sorted), e, t)

\* Array.prototype.sort with the comparator above
RECURSIVE sort(_, _)
sort(events, t) ==
    IF events = <<>>
    THEN <<>>
    ELSE insertSorted(sort(SubSeq(events, 1, Len(events) - 1), t),
                      events[Len(events)], t)

\* Array.prototype.slice(0, n)
slice(events, n) ==
    SubSeq(events, 1, IF Len(events) < n THEN Len(events) ELSE n)

\* _filterAndProcessEvents, at time t
_filterAndProcessEvents(events, t) ==
    LET kept == SelectSeq(events, LAMBDA e : ~shouldExclude(e))
        fromToday == SelectSeq(kept, LAMBDA e : e.start >= midnightBefore(t))
    IN  slice(sort(fromToday, t), MaxReturnedEvents)

\* the events of the tuples of one EventsAddedOrUpdated signal
RECURSIVE serverEvents(_)
serverEvents(tuples) ==
    IF tuples = <<>>
    THEN <<>>
    ELSE _processCalendarServerEvent(Head(tuples)) \o serverEvents(Tail(tuples))

\* _readCalendarServerData as _collectCalendarData sees it: the events of
\* the signal, nothing after the 2 s timeout, nothing when it rejects
_readCalendarServerData(outcome) ==
    IF outcome.status = "events" THEN serverEvents(outcome.tuples) ELSE <<>>

\* what one path of _findCalendarDataForSource adds, at time t: the parsed
\* events, or nothing when reading it throws
fromContent(content, t) ==
    IF _parseICSContent(content, t).threw
    THEN <<>>
    ELSE _parseICSContent(content, t).value

\* _readSQLiteCalendarCache on the rows the query returns, at time t: each
\* row is parsed on its own, and a row that throws is skipped
RECURSIVE _readSQLiteCalendarCache(_, _)
_readSQLiteCalendarCache(rows, t) ==
    IF rows = <<>>
    THEN <<>>
    ELSE fromContent(Head(rows), t) \o _readSQLiteCalendarCache(Tail(rows), t)

\* the cache.db of every directory under ~/.cache/evolution/calendar
RECURSIVE fromCacheDirs(_, _)
fromCacheDirs(dirs, t) ==
    IF dirs = <<>>
    THEN <<>>
    ELSE _readSQLiteCalendarCache(Head(dirs).content, t)
         \o fromCacheDirs(Tail(dirs), t)

\* _findCalendarDataForSource: the source's calendar.ics, its cache.db, and
\* the cache.db of every cache directory, in this order
_findCalendarDataForSource(sourceId, store, t) ==
    LET own == SelectSeq(store.files, LAMBDA f : f.id = sourceId)
        ownCache == SelectSeq(store.cacheDirs, LAMBDA d : d.id = sourceId)
    IN  (IF own = <<>> THEN <<>> ELSE fromContent(own[1].content, t))
        \o fromCacheDirs(ownCache, t)
        \o fromCacheDirs(store.cacheDirs, t)

\* _readGnomeCalendarData: every enabled calendar source under
\* ~/.config/evolution/sources, in directory order
RECURSIVE _readGnomeCalendarData(_, _, _)
_readGnomeCalendarData(sources, store, t) ==
    IF sources = <<>>
    THEN <<>>
    ELSE _findCalendarDataForSource(Head(sources), store, t)
         \o _readGnomeCalendarData(Tail(sources), store, t)

\* _readEvolutionICS: ~/.local/share/evolution/calendar/system/calendar.ics
_readEvolutionICS(store, t) ==
    LET flat == SelectSeq(store.files, LAMBDA f : f.id = "system")
    IN  IF flat = <<>> THEN <<>> ELSE fromContent(flat[1].content, t)

storeTierAlways(events) ==
    TRUE

\* if (events.length === 0): whether _collectCalendarData goes on to the
\* SQLite tier
storeTier(events) ==
    Len(events) = 0

\* what the file system held when the store tier last ran
NoStore ==
    [sources |-> <<>>, files |-> <<>>, cacheDirs |-> <<>>]

\* what the calendar server answered when the server tier last ran
NoOutcome ==
    [status |-> "none", tuples |-> <<>>]

\* new CalendarDataCollector(), no call of getCalendarEvents in progress.
\* cache: the 'calendar_events' entry (none: <<>>); events: the array of
\* _collectCalendarData; trace: the tiers the last acquisition ran and what
\* each yielded; store: the files its store tier found; raw: the events it
\* collected; server: what the calendar server answered; wait: what the
\* promise of _readCalendarServerData is waiting for ("reply": the callback
\* of SetTimeRange, "timer": the timeout it added, "none"); returned: what
\* getCalendarEvents last returned, and how
IdleCollector ==
    [pc |-> "idle", cache |-> <<>>, events |-> <<>>, trace |-> <<>>,
     server |-> NoOutcome, store |-> NoStore, raw |-> <<>>, wait |-> "none",
     returned |-> [via |-> "none", events |-> <<>>, at |-> 0]]

\* DataCollector.calendarCollector = null: no collector
NoCollector ==
    [IdleCollector EXCEPT !.pc = "null"]

----------------------------------------------------------------------------
(* meeting-assistant.js: MeetingAssistant.  An event is the words of its    *)
(* title and description, the URLs among them in the order of the text,    *)
(* and its duration in seconds (0 for none).  A URL is                      *)
(* https://<host>/<segment>/<id><query>, the segment possibly empty.        *)
(* Confidence is in tenths.                                                 *)

MeetingUrl(host, segment, id, query) ==
    [host |-> host, segment |-> segment, id |-> id, query |-> query]

\* the hosts that (?:[\w-]+\.)?zoom\.us and [\w-]+\.webex\.com match
ZoomHosts ==
    {"zoom.us", "us02web.zoom.us"}

WebexHosts ==
    {"acme.webex.com"}

GoToMeetingHosts ==
    {"gotomeeting.com", "www.gotomeeting.com"}

\* the number of meetingLinkPatterns
PatternCount ==
    10

\* the part of the URL a pattern ends at when its last class has no ? and =
upToQuery(url) ==
    [url EXCEPT !.query = ""]

\* a pattern for host/<id> on a URL whose first path part is a segment
upToSegment(url) ==
    [url EXCEPT !.id = url.segment, !.segment = "", !.query = ""]

\* what meetingLinkPatterns[p] matches in the URL: nothing, or one text
matchOf(p, url) ==
    CASE p = 1 -> IF url.host \in ZoomHosts /\ url.segment = "j"
                  THEN <<url>> ELSE <<>>
      [] p = 2 -> IF url.host \in ZoomHosts /\ url.segment = "meeting"
                  THEN <<url>> ELSE <<>>
      [] p = 3 -> IF url.host # "meet.google.com" THEN <<>>
                  ELSE IF url.segment = "" THEN <<upToQuery(url)>>
                  ELSE <<upToSegment(url)>>
      [] p = 4 -> IF url.host = "teams.microsoft.com"
                     /\ url.segment = "l/meetup-join"
                  THEN <<url>> ELSE <<>>
      [] p = 5 -> IF url.host = "teams.live.com" /\ url.segment = "meet"
                  THEN <<url>> ELSE <<>>
      [] p = 6 -> IF url.host \in WebexHosts /\ url.segment = "meet"
                  THEN <<upToQuery(url)>> ELSE <<>>
      [] p = 7 -> IF url.host \in WebexHosts /\ url.segment = "join"
                  THEN <<upToQuery(url)>> ELSE <<>>
      [] p = 8 -> IF url.segment \in {"meet", "join", "meeting", "call"}
                  THEN <<upToQuery(url)>> ELSE <<>>
      [] p = 9 -> IF url.host # "meet.jit.si" THEN <<>>
                  ELSE IF url.segment = "" THEN <<upToQuery(url)>>
                  ELSE <<upToSegment(url)>>
      [] OTHER -> IF url.host \in GoToMeetingHosts /\ url.segment = "join"
                  THEN <<upToQuery(url)>> ELSE <<>>

\* text.match(pattern): the matches of one pattern, in the order of the text
RECURSIVE match(_, _)
match(urls, p) ==
    IF urls = <<>>
    THEN <<>>
    ELSE matchOf(p, Head(urls)) \o match(Tail(urls), p)

\* detectMeetingPlatform: url.toLowerCase().includes(...), in this order
detectMeetingPlatform(url) ==
    IF url.host \in ZoomHosts \/ url.id = "zoom.us" THEN "zoom"
    ELSE IF url.host = "meet.google.com" THEN "google-meet"
    ELSE IF url.host \in {"teams.microsoft.com", "teams.live.com"} THEN "teams"
    ELSE IF url.host \in WebexHosts THEN "webex"
    ELSE IF url.host = "meet.jit.si" THEN "jitsi"
    ELSE IF url.host \in GoToMeetingHosts THEN "gotomeeting"
    ELSE "generic"

\* platformConfidence
platformConfidence(platform) ==
    CASE platform \in {"zoom", "google-meet", "teams"} -> 9
      [] platform = "webex" -> 8
      [] platform \in {"jitsi", "gotomeeting"} -> 7
      [] OTHER -> 6

\* ['meeting', 'call', 'conference', 'join', 'dial-in'].some(keyword =>
\* context.toLowerCase().includes(keyword)): in a word, or in a URL
meetingContext(event) ==
    \/ \E i \in DOMAIN event.words :
          event.words[i] \in {"meeting", "call", "conference", "join",
                              "dial-in"}
    \/ \E i \in DOMAIN event.urls :
          \/ event.urls[i].segment
                \in {"meeting", "join", "call", "l/meetup-join"}
          \/ event.urls[i].host \in GoToMeetingHosts

calculateLinkConfidenceFlat(url, event) ==
    6

\* calculateLinkConfidence
calculateLinkConfidence(url, event) ==
    LET base == 5
        known == platformConfidence(detectMeetingPlatform(url))
        confidence == IF known > base THEN known ELSE base
        boosted == IF meetingContext(event) THEN confidence + 1
                   ELSE confidence
    IN  IF boosted < 10 THEN boosted ELSE 10

MeetingLink(url, event) ==
    [url |-> url, type |-> detectMeetingPlatform(url),
     confidence |-> calculateLinkConfidence(url, event)]

\* the loop of extractMeetingLinks over the patterns from p on
RECURSIVE linksFrom(_, _)
linksFrom(p, event) ==
    IF p > PatternCount
    THEN <<>>
    ELSE [i \in DOMAIN match(event.urls, p) |->
             MeetingLink(match(event.urls, p)[i], event)]
         \o linksFrom(p + 1, event)

\* .filter((link, index, self) =>
\*     index === self.findIndex(l => l.url === link.url))
firstOfUrl(links) ==
    LET keep == {i \in DOMAIN links :
                    \A j \in 1..(i - 1) : links[j].url # links[i].url}
        pick[i \in 0..Len(links)] ==
            IF i = 0 THEN <<>>
            ELSE IF i \in keep THEN Append(pick[i - 1], links[i])
            ELSE pick[i - 1]
    IN  pick[Len(links)]

\* one step of .sort((a, b) => b.confidence - a.confidence) (stable)
RECURSIVE insertByConfidence(_, _)
insertByConfidence(sorted, link) ==
    IF sorted = <<>>
    THEN <<link>>
    ELSE IF Head(sorted).confidence - link.confidence < 0
    THEN <<link>> \o sorted
    ELSE <<Head(sorted)>> \o insertByConfidence(Tail(sorted), link)

RECURSIVE sortByConfidence(_)
sortByConfidence(links) ==
    IF links = <<>>
    THEN <<>>
    ELSE insertByConfidence(sortByConfidence(SubSeq(links, 1, Len(links) - 1)),
                            links[Len(links)])

\* extractMeetingLinks
extractMeetingLinks(event) ==
    sortByConfidence(firstOfUrl(linksFrom(1, event)))

\* text.includes(keyword) on the words of the event
mentionsAny(event, keywords) ==
    \E i \in DOMAIN event.words : event.words[i] \in keywords

\* detectMeetingType
detectMeetingType(event) ==
    IF mentionsAny(event, {"standup", "daily"}) THEN "standup"
    ELSE IF mentionsAny(event, {"1:1", "one-on-one"}) THEN "one-on-one"
    ELSE IF mentionsAny(event, {"interview"}) THEN "interview"
    ELSE IF mentionsAny(event, {"all-hands", "town hall"}) THEN "all-hands"
    ELSE IF mentionsAny(event, {"demo", "presentation"}) THEN "presentation"
    ELSE IF mentionsAny(event, {"review"}) THEN "review"
    ELSE IF mentionsAny(event, {"client", "customer"}) THEN "client"
    ELSE "general"

\* this.urgentKeywords
urgentKeywords ==
    {"urgent", "asap", "emergency", "critical", "immediate", "1:1",
     "one-on-one", "interview", "all-hands", "standup", "deadline", "review",
     "demo", "presentation", "client"}

\* 2 * 60 * 60 and 15 * 60
LongMeeting ==
    7200

ShortMeeting ==
    900

\* event.duration || 60 * 60
DefaultDuration ==
    3600

\* calculateMeetingUrgency
calculateMeetingUrgency(event) ==
    LET urgency == IF mentionsAny(event, urgentKeywords) THEN "high"
                   ELSE "medium"
        duration == event.duration
    IN  IF duration > LongMeeting
        THEN IF urgency = "high" THEN "high" ELSE "medium-high"
        ELSE IF duration < ShortMeeting
        THEN IF urgency = "high" THEN "high" ELSE "low"
        ELSE urgency

\* baseTime[meetingType] || 5, in minutes
baseTime(meetingType) ==
    CASE meetingType = "standup" -> 2
      [] meetingType = "one-on-one" -> 5
      [] meetingType = "interview" -> 30
      [] meetingType = "all-hands" -> 5
      [] meetingType \in {"presentation", "client"} -> 15
      [] meetingType = "review" -> 10
      [] OTHER -> 5

\* the lower and upper limit of the preparation time, in minutes
MinPreparation ==
    2

MaxPreparation ==
    30

\* prepTime before rounding, in quarters of a minute: the factors 1.5 and
\* 0.5 are 3 and 1 halves
quarters(event) ==
    LET urgency == calculateMeetingUrgency(event)
        duration == IF event.duration = 0 THEN DefaultDuration
                    ELSE event.duration
        byUrgency == IF urgency = "high" THEN 3
                     ELSE IF urgency = "low" THEN 1 ELSE 2
        byDuration == IF duration > LongMeeting THEN 3
                      ELSE IF duration < ShortMeeting THEN 1 ELSE 2
    IN  baseTime(detectMeetingType(event)) * byUrgency * byDuration

\* Math.round of a number of quarters
round(q) ==
    (q + 2) \div 4

calculatePreparationTimeUnclamped(event) ==
    round(quarters(event))

\* calculatePreparationTime
calculatePreparationTime(event) ==
    LET prepTime == round(quarters(event))
        capped == IF prepTime < MaxPreparation THEN prepTime
                  ELSE MaxPreparation
    IN  IF capped > MinPreparation THEN capped ELSE MinPreparation

\* the number of characters of a part of a URL of the model
chars(part) ==
    CASE part = "" -> 0
      [] part \in {"j", "d"} -> 1
      [] part = "99" -> 2
      [] part = "42" -> 2
      [] part \in {"123", "xyz", "bob"} -> 3
      [] part \in {"meet", "join", "call", "room", "spec", "?p=1"} -> 4
      [] part = "?pwd=x" -> 6
      [] part \in {"meeting", "zoom.us"} -> 7
      [] part = "abc-defg" -> 8
      [] part = "example.com" -> 11
      [] part = "meet.jit.si" -> 11
      [] part = "l/meetup-join" -> 13
      [] part \in {"teams.live.com", "acme.webex.com"} -> 14
      [] part \in {"us02web.zoom.us", "meet.google.com",
                   "gotomeeting.com"} -> 15
      [] part = "docs.example.com" -> 16
      [] OTHER -> 19

\* String.prototype.length of https://<host>/<segment>/<id><query>
length(url) ==
    8 + chars(url.host) + 1
      + (IF url.segment = "" THEN 0 ELSE chars(url.segment) + 1)
      + chars(url.id) + chars(url.query)

\* the lastIndex of every pattern after construction and after String.match
ZeroLastIndex ==
    [p \in 1..PatternCount |-> 0]

\* pattern.test(url) of a /g pattern: the search starts at pattern.lastIndex
\* and every pattern begins with the scheme, which a URL holds at index 0
\* only; a success leaves lastIndex after the match, a failure at 0
testfound(p, url, lastIndex) ==
    lastIndex[p] = 0 /\ matchOf(p, url) # <<>>

test(p, url, lastIndex) ==
    [found |-> testfound(p, url, lastIndex),
     lastIndex |-> [lastIndex EXCEPT
                       ![p] = IF testfound(p, url, lastIndex)
                              THEN length(matchOf(p, url)[1])
                              ELSE 0]]

\* this.meetingLinkPatterns.some(pattern => pattern.test(url)) from pattern
\* p on: the patterns are tested in order up to the first success
RECURSIVE some(_, _, _)
some(p, url, lastIndex) ==
    IF p > PatternCount
    THEN [found |-> FALSE, lastIndex |-> lastIndex]
    ELSE IF test(p, url, lastIndex).found
    THEN test(p, url, lastIndex)
    ELSE some(p + 1, url, test(p, url, lastIndex).lastIndex)

\* this.preparationKeywords
preparationKeywords ==
    {"agenda", "materials", "slides", "document", "prep", "review", "read",
     "prepare", "bring", "requirements"}

\* calculateTaskPriority
calculateTaskPriority(event) ==
    IF mentionsAny(event, {"urgent", "critical", "required"}) THEN "high"
    ELSE IF mentionsAny(event, {"recommended", "helpful", "optional"})
    THEN "low"
    ELSE "medium"

\* a task without a document
NoUrl ==
    MeetingUrl("", "", "", "")

PreparationTask(priority) ==
    [type |-> "preparation", priority |-> priority, url |-> NoUrl]

\* { task: `Review document: ${url}`, type: 'document', ... }
DocumentTask(url) ==
    [type |-> "document", priority |-> "medium", url |-> url]

\* urlMatches.forEach(url => ...): the tasks pushed for the URLs, in the
\* order of the text, and the lastIndex the patterns are left with
RECURSIVE reviewDocuments(_, _)
reviewDocuments(urls, lastIndex) ==
    IF urls = <<>>
    THEN [tasks |-> <<>>, lastIndex |-> lastIndex]
    ELSE LET tested == some(1, Head(urls), lastIndex)
             rest == reviewDocuments(Tail(urls), tested.lastIndex)
         IN  [tasks |-> (IF tested.found THEN <<>>
                         ELSE <<DocumentTask(Head(urls))>>) \o rest.tasks,
              lastIndex |-> rest.lastIndex]

\* getDefaultPreparationTasks
getDefaultPreparationTasks(meetingType) ==
    CASE meetingType = "standup" ->
            <<PreparationTask("high"), PreparationTask("high")>>
      [] meetingType = "one-on-one" ->
            <<PreparationTask("medium"), PreparationTask("medium")>>
      [] meetingType = "interview" ->
            <<PreparationTask("high"), PreparationTask("high"),
              PreparationTask("high")>>
      [] meetingType = "presentation" ->
            <<PreparationTask("high"), PreparationTask("medium")>>
      [] meetingType = "client" ->
            <<PreparationTask("high"), PreparationTask("medium")>>
      [] OTHER -> <<PreparationTask("medium")>>

\* tasks.slice(0, 5)
MaxPreparationTasks ==
    5

\* generatePreparationTasks on an event whose text is one line, with the
\* lastIndex the patterns hold when it is called
generatePreparationTasks(event, lastIndex) ==
    LET line == IF event.words # <<>> /\ mentionsAny(event, preparationKeywords)
                THEN <<PreparationTask(calculateTaskPriority(event))>>
                ELSE <<>>
        documents == reviewDocuments(event.urls, lastIndex)
        tasks == line \o documents.tasks
                 \o getDefaultPreparationTasks(detectMeetingType(event))
    IN  [tasks |-> SubSeq(tasks, 1, IF Len(tasks) < MaxPreparationTasks
                                    THEN Len(tasks)
                                    ELSE MaxPreparationTasks),
         lastIndex |-> documents.lastIndex]

\* no call on meetingAssistant yet
NoMeeting ==
    [op |-> "none", event |-> [words |-> <<>>, urls |-> <<>>, duration |-> 0],
     links |-> <<>>, preparationTime |-> 0, tasks |-> <<>>,
     lastIndex |-> ZeroLastIndex]

----------------------------------------------------------------------------
(* State *)

NoData ==
    [weather |-> [temp |-> "--", condition |-> "Loading"],
     calendar |-> <<>>, tasks |-> <<>>,
     system |-> [nixosIssues |-> 0, nixosStatus |-> <<"OK">>,
                 battery |-> [kind |-> "N/A", n |-> 0]]]

\* the frame of one _updateData call: where it is, the data collected so
\* far, the cache key of the advisory call in flight, the rate-limiter
\* operations and sends made so far, and how the request of getTasks ended
IdleFrame ==
    [pc |-> "idle", data |-> NoData, key |-> <<>>, log |-> <<>>,
     taskSource |-> "none"]

\* the frame of an _updateData call that has returned
DoneFrame ==
    [IdleFrame EXCEPT !.pc = "done"]

NoResult ==
    [op |-> "none", key |-> <<>>, ok |-> FALSE, value |-> Null]

\* buttonText as the constructor leaves it
NotPublished ==
    [cycle |-> 0, via |-> "constructor", advisory |-> "none", ai |-> Null,
     at |-> 0, ops |-> <<>>]

\* 23:58:00 of the second day
StartOfRun ==
    2 * SecondsPerDay - 2 * SecondsPerMinute

UsageOn(day, n, i) ==
    [exists |-> TRUE, writable |-> TRUE, valid |-> TRUE, date |-> day,
     requests |-> n, insights |-> i, prioritization |-> n - i]

CorruptUsage ==
    [exists |-> TRUE, writable |-> TRUE, valid |-> FALSE, date |-> 0,
     requests |-> 0, insights |-> 0, prioritization |-> 0]

\* the file, on a read-only file system
ReadOnly(file) ==
    [file EXCEPT !.writable = FALSE]

\* what claude-usage.json may hold when the process starts at time t
InitialUsage(t) ==
    {ZeroUsage(toDateString(t)),
     UsageOn(toDateString(t), DocumentedDailyLimit, 12),
     UsageOn(toDateString(t), maxDailyRequests - 1, 50),
     UsageOn(toDateString(t) - 1, maxDailyRequests, 50),
     ReadOnly(UsageOn(toDateString(t), maxDailyRequests - 1, 50)),
     CorruptUsage,
     MissingUsage}

----------------------------------------------------------------------------
(* The update cycle: AtAGlanceIndicator._init, _updateData, _updateDisplay *)

WeatherResponses ==
    {[status |-> "ok", temp |-> "68", condition |-> "Clear"],
     [status |-> "exception", temp |-> "", condition |-> ""]}

CalendarResults ==
    {<<>>, <<Event(<<"Standup">>, StartOfRun + 10 * SecondsPerMinute, Null)>>}

TaskResponses ==
    {[status |-> "ok", items |-> <<[content |-> <<"Pay rent">>, priority |-> 4]>>],
     [status |-> "exception", items |-> <<>>]}

SystemProbes ==
    {[status |-> "ok", failed |-> 0, battery |-> [kind |-> "number", n |-> 80]],
     [status |-> "ok", failed |-> 0, battery |-> [kind |-> "number", n |-> 15]]}

\* the task-service responses and system probes a cycle may meet together
TaskAndSystemInputs ==
    {<<resp, probe>> \in TaskResponses \X SystemProbes :
        resp.status = "ok" \/ probe.battery.n >= LowBatteryThreshold}

InsightsReplies ==
    {[status |-> "ok", content |-> <<"Take a walk">>],
     [status |-> "httpError", content |-> <<>>],
     [status |-> "exception", content |-> <<>>]}

PrioritizationReplies ==
    {[status |-> "ok", content |-> <<" ", "'", ":bulb: Focus time", "'">>],
     [status |-> "ok", content |-> <<"'">>],
     [status |-> "httpError", content |-> <<>>],
     [status |-> "exception", content |-> <<>>]}

ErrorText ==
    <<":chart: Error">>

\* the operations of the prioritization call among those of a cycle
prioritizationOps(ops) ==
    SelectSeq(ops, LAMBDA o : o[1] = "prioritization")

\* the catch block of _updateData
Fail(c) ==
    /\ cyc' = [cyc EXCEPT ![c] = DoneFrame]
    /\ buttonText' = ErrorText
    /\ published' = [cycle |-> c, via |-> "catch", advisory |-> "none",
                     ai |-> Null, at |-> now,
                     ops |-> prioritizationOps(cyc[c].log)]

\* _updateDisplay from buttonText.set_text on, and the return of _updateData
Publish(c, text, via, advisory, ai, ops) ==
    /\ cyc' = [cyc EXCEPT ![c] = DoneFrame]
    /\ buttonText' = text
    /\ published' = [cycle |-> c, via |-> via, advisory |-> advisory,
                     ai |-> ai, at |-> now,
                     ops |-> prioritizationOps(cyc[c].log \o ops)]

\* this._updateTimer = null: no update timer
NoTimer ==
    -1

\* the timer callback that waits for the advisory calls of earlier cycles
StartCycleAfterAwait ==
    /\ nextTimer # NoTimer
    /\ now >= nextTimer
    /\ started < MaxCycles
    /\ \A c \in 1..MaxCycles : cyc[c].pc \notin {"insightsAwait", "prioAwait"}
    /\ started' = started + 1
    /\ cyc' = [cyc EXCEPT ![started + 1].pc = "weather"]
    /\ nextTimer' = now + UpdateIntervalSeconds
    /\ UNCHANGED <<collector, meeting, now, usageFile, ioOK, cache, result,
                   recorded, stored, hasKey, buttonText, lastData, published>>

\* the update timer fires: a new _updateData starts
StartCycle ==
    /\ nextTimer # NoTimer
    /\ now >= nextTimer
    /\ started < MaxCycles
    /\ started' = started + 1
    /\ cyc' = [cyc EXCEPT ![started + 1].pc = "weather"]
    /\ nextTimer' = now + UpdateIntervalSeconds
    /\ UNCHANGED <<collector, meeting, now, usageFile, ioOK, cache, result, recorded, stored,
                   hasKey, buttonText, lastData, published>>

\* time passes until the update timer is due
AdvanceTime ==
    /\ nextTimer # NoTimer
    /\ now < nextTimer
    /\ now' = nextTimer
    /\ result' = NoResult
    /\ UNCHANGED <<usageFile, ioOK, cache, recorded, stored, pipelineVars>>

\* await DataCollector.getWeather()
WeatherDone(c) ==
    /\ cyc[c].pc = "weather"
    /\ \E resp \in WeatherResponses :
         LET r == getWeather(resp)
         IN  IF r.threw
             THEN Fail(c)
             ELSE /\ cyc' = [cyc EXCEPT ![c].pc = "calendar",
                                        ![c].data.weather = r.value]
                  /\ UNCHANGED <<buttonText, published>>
    /\ UNCHANGED <<collector, meeting, limiterVars, stored, hasKey, started, nextTimer, lastData>>

\* await DataCollector.getCalendarEvents(): the collector is created when
\* there is none
CalendarDone(c) ==
    /\ cyc[c].pc = "calendar"
    /\ \E events \in CalendarResults :
         cyc' = [cyc EXCEPT ![c].pc = "tasks", ![c].data.calendar = events]
    /\ collector' = IF collector = NoCollector THEN IdleCollector
                    ELSE collector
    /\ UNCHANGED <<meeting, limiterVars, stored, hasKey, started, nextTimer, buttonText,
                   lastData, published>>

\* await DataCollector.getTasks(); await DataCollector.getSystemInfo():
\* neither reads or writes anything another cycle touches
TasksDone(c) ==
    /\ cyc[c].pc = "tasks"
    /\ \E in \in TaskAndSystemInputs :
         LET r == getTasks(in[1])
             s == getSystemInfo(in[2])
         IN  IF r.threw \/ s.threw
             THEN Fail(c)
             ELSE /\ cyc' = [cyc EXCEPT ![c].pc = "insights",
                                        ![c].taskSource = in[1].status,
                                        ![c].data.tasks = r.value,
                                        ![c].data.system = s.value]
                  /\ UNCHANGED <<buttonText, published>>
    /\ UNCHANGED <<collector, meeting, limiterVars, stored, hasKey, started, nextTimer, lastData>>

\* getClaudeInsights up to its await; when it returns without a call,
\* this._lastData = data follows at once
InsightsStart(c) ==
    /\ cyc[c].pc = "insights"
    /\ LET key == insightsKey(cyc[c].data, now)
           att == attempt("insights", key, hasKey, usageFile, ioOK, cache, now)
       IN  /\ usageFile' = att.file
           /\ cache' = att.cache
           /\ recorded' = recorded + recordsIn(att.ops)
           /\ IF att.outcome = "sent"
              THEN /\ cyc' = [cyc EXCEPT ![c].pc = "insightsAwait",
                                         ![c].key = key,
                                         ![c].log = @ \o att.ops]
                   /\ UNCHANGED lastData
              ELSE /\ cyc' = [cyc EXCEPT ![c].pc = "display",
                                         ![c].log = @ \o att.ops]
                   /\ lastData' = [cycle |-> c, data |-> cyc[c].data]
    /\ UNCHANGED <<collector, meeting, now, ioOK, result, stored, hasKey, started, nextTimer,
                   buttonText, published>>

\* a reply to the insights call that is stored whatever its status
InsightsResponseStoringAll(c) ==
    /\ cyc[c].pc = "insightsAwait"
    /\ \E reply \in InsightsReplies :
         /\ cache' = setCached(cache, cyc[c].key, insightsValue(reply), now)
         /\ stored' = setCached(stored, cyc[c].key, insightsValue(reply), now)
    /\ cyc' = [cyc EXCEPT ![c].pc = "display", ![c].key = <<>>]
    /\ lastData' = [cycle |-> c, data |-> cyc[c].data]
    /\ UNCHANGED <<collector, meeting, now, usageFile, ioOK, result, recorded, hasKey, started,
                   nextTimer, buttonText, published>>

\* the reply to the insights call; this._lastData = data
InsightsResponse(c) ==
    /\ cyc[c].pc = "insightsAwait"
    /\ \E reply \in InsightsReplies :
         IF reply.status = "ok"
         THEN /\ cache' = setCached(cache, cyc[c].key, insightsValue(reply), now)
              /\ stored' = setCached(stored, cyc[c].key, insightsValue(reply),
                                     now)
         ELSE UNCHANGED <<cache, stored>>
    /\ cyc' = [cyc EXCEPT ![c].pc = "display", ![c].key = <<>>]
    /\ lastData' = [cycle |-> c, data |-> cyc[c].data]
    /\ UNCHANGED <<collector, meeting, now, usageFile, ioOK, result, recorded, hasKey, started,
                   nextTimer, buttonText, published>>

\* _updateDisplay: _getMostUrgentDisplay up to the await of the advisory call
UpdateDisplay(c) ==
    /\ cyc[c].pc = "display"
    /\ LET data == cyc[c].data
           alert == critical(data.system)
           key == prioritizationKey(data, now)
           att == attempt("prioritization", key, hasKey, usageFile, ioOK,
                          cache, now)
       IN  IF ~alert.null
           THEN /\ Publish(c, alert.v, "critical", "none", Null, <<>>)
                /\ UNCHANGED <<usageFile, cache, recorded>>
           ELSE /\ usageFile' = att.file
                /\ cache' = att.cache
                /\ recorded' = recorded + recordsIn(att.ops)
                /\ IF att.outcome = "sent"
                   THEN /\ cyc' = [cyc EXCEPT ![c].pc = "prioAwait",
                                              ![c].key = key,
                                              ![c].log = @ \o att.ops]
                        /\ UNCHANGED <<buttonText, published>>
                   ELSE Publish(c, afterAdvisory(data, att.value, now),
                                "advisory", att.outcome, att.value, att.ops)
    /\ UNCHANGED <<collector, meeting, now, ioOK, result, stored, hasKey, started, nextTimer,
                   lastData>>

\* the reply to the prioritization call, and the rest of _updateDisplay
PrioritizationResponse(c) ==
    /\ cyc[c].pc = "prioAwait"
    /\ \E reply \in PrioritizationReplies :
         LET ai == prioritizationValue(reply)
         IN  /\ IF reply.status = "ok"
                THEN /\ cache' = setCached(cache, cyc[c].key, ai.v, now)
                     /\ stored' = setCached(stored, cyc[c].key, ai.v, now)
                ELSE UNCHANGED <<cache, stored>>
             /\ Publish(c, afterAdvisory(cyc[c].data, ai, now), "advisory",
                        reply.status, ai, <<>>)
    /\ UNCHANGED <<collector, meeting, now, usageFile, ioOK, result, recorded, hasKey, started,
                   nextTimer, lastData>>

\* the configurations a run of the pipeline starts from: the usage file, the
\* state of its storage and whether an API key is configured
PipelineSetups ==
    {<<UsageOn(toDateString(StartOfRun), DocumentedDailyLimit, 12), TRUE, TRUE>>,
     <<UsageOn(toDateString(StartOfRun), maxDailyRequests - 1, 50), TRUE, TRUE>>,
     <<ReadOnly(UsageOn(toDateString(StartOfRun), maxDailyRequests - 1, 50)),
       TRUE, TRUE>>,
     <<CorruptUsage, FALSE, TRUE>>,
     <<ZeroUsage(toDateString(StartOfRun)), TRUE, FALSE>>}

Init ==
    /\ now = StartOfRun
    /\ \E setup \in PipelineSetups :
         /\ usageFile = setup[1]
         /\ ioOK = setup[2]
         /\ hasKey = setup[3]
    /\ cache = EmptyMap
    /\ stored = EmptyMap
    /\ result = NoResult
    /\ recorded = 0
    /\ started = 1
    /\ cyc = [c \in 1..MaxCycles |->
                IF c = 1 THEN [IdleFrame EXCEPT !.pc = "weather"] ELSE IdleFrame]
    /\ nextTimer = StartOfRun + UpdateIntervalSeconds
    /\ buttonText = <<":chart:">>
    /\ lastData = [cycle |-> 0, data |-> NoData]
    /\ published = NotPublished
    /\ collector = NoCollector
    /\ meeting = NoMeeting

Next ==
    \/ StartCycle
    \/ AdvanceTime
    \/ \E c \in 1..MaxCycles :
         \/ WeatherDone(c)
         \/ CalendarDone(c)
         \/ TasksDone(c)
         \/ InsightsStart(c)
         \/ InsightsResponse(c)
         \/ UpdateDisplay(c)
         \/ PrioritizationResponse(c)

Spec ==
    Init /\ [][Next]_vars

----------------------------------------------------------------------------
(* The update cycle and the end of the indicator: disable() calls           *)
(* destroy() at any time, also while cycles are in flight                   *)

\* destroy(): the update timer is removed, the calendar collector is
\* destroyed and forgotten
Destroy ==
    /\ nextTimer # NoTimer
    /\ nextTimer' = NoTimer
    /\ collector' = NoCollector
    /\ UNCHANGED <<meeting, limiterVars, stored, hasKey, cyc, started,
                   buttonText, lastData, published>>

InitLifecycle ==
    /\ Init
    /\ usageFile = UsageOn(toDateString(StartOfRun), DocumentedDailyLimit, 12)

NextLifecycle ==
    \/ Destroy
    \/ StartCycle
    \/ AdvanceTime
    \/ \E c \in 1..MaxCycles :
         \/ WeatherDone(c)
         \/ CalendarDone(c)
         \/ TasksDone(c)
         \/ InsightsStart(c)
         \/ InsightsResponse(c)
         \/ UpdateDisplay(c)
         \/ PrioritizationResponse(c)

SpecLifecycle ==
    InitLifecycle /\ [][NextLifecycle]_vars

----------------------------------------------------------------------------
(* The arbiter on its own: _getMostUrgentDisplay on every input of ArbiterData *)

ArbiterClocks ==
    {3 * SecondsPerDay + 12 * 3600, 3 * SecondsPerDay + 22 * 3600}

\* offsets, in seconds from the start, at which the events of the inputs begin
EventOffsets ==
    {0 - 7200, 0 - 90, 30, 930, 990, 14430, 14490, 18000, 46800}

Locations ==
    {Null, Val(<<>>), Val(<<"Virtual", " room">>), Val(<<"Room 4">>)}

\* calendars as getCalendarEvents returns them: earliest start first
ArbiterCalendars(t) ==
    {<<>>}
    \cup {<<Event(<<"Standup">>, t + o, Null)>> : o \in EventOffsets}
    \cup {<<Event(<<"Review">>, t + 14430, l)>> : l \in Locations}
    \cup {<<Event(<<"Standup">>, t + 930, Null),
            Event(<<"Review">>, t + 18000, Null)>>,
          <<Event(<<"Standup">>, t + 14490, Null),
            Event(<<"Review">>, t + 46800, Null)>>}

ArbiterTasks ==
    {<<>>,
     <<Task(<<"Pay rent">>, "high")>>,
     <<Task(<<"Pay rent">>, "high"), Task(<<"Call bank">>, "high")>>,
     <<Task(<<"Water plants">>, "medium")>>,
     <<Task(<<"Read">>, "low"), Task(<<"Water plants">>, "medium"),
       Task(<<"Tidy">>, "medium")>>,
     <<Task(<<"Water plants">>, "medium"), Task(<<"Pay rent">>, "high")>>,
     <<Task(<<"Read">>, "low")>>}

ArbiterWeather ==
    {[temp |-> "68", condition |-> "Thunderstorm"],
     [temp |-> "--", condition |-> "Error"]}

HealthySystems ==
    {getSystemInfo([status |-> "ok", failed |-> 0, battery |-> b]).value :
        b \in {[kind |-> "number", n |-> 80], [kind |-> "N/A", n |-> 0]}}

TroubledSystems ==
    {getSystemInfo([status |-> "ok", failed |-> f, battery |-> b]).value :
        f \in {0, 2},
        b \in {[kind |-> "number", n |-> 5], [kind |-> "number", n |-> 19],
               [kind |-> "number", n |-> 20], [kind |-> "NaN", n |-> 0]}}
    \cup {getSystemInfo([status |-> "exception", failed |-> 0,
                         battery |-> [kind |-> "N/A", n |-> 0]]).value}

\* conditions for the weather rule: data.weather[0].main of OpenWeather,
\* texts naming two conditions, a lower-case text and a text naming none
LadderConditions ==
    {"Rain", "Snow", "Fog", "Clouds", "Clear", "Sunny", "Rain, Thunderstorm",
     "Snow, Rain", "Fog, Snow", "Clouds, Fog", "Clear, Clouds", "thunderstorm",
     "Drizzle"}

ArbiterData(t) ==
    {[weather |-> w, calendar |-> cal, tasks |-> ts, system |-> sys] :
        w \in ArbiterWeather, cal \in ArbiterCalendars(t), ts \in ArbiterTasks,
        sys \in HealthySystems}
    \cup
    {[weather |-> [temp |-> "41", condition |-> c], calendar |-> <<>>,
      tasks |-> ts, system |-> sys] :
        c \in LadderConditions,
        ts \in {<<>>, <<Task(<<"Read">>, "low")>>},
        sys \in HealthySystems}
    \cup
    {[weather |-> w, calendar |-> cal, tasks |-> ts, system |-> sys] :
        w \in {[temp |-> "68", condition |-> "Thunderstorm"]},
        cal \in {<<>>, <<Event(<<"Standup">>, t + 30, Null)>>},
        ts \in {<<>>, <<Task(<<"Pay rent">>, "high")>>},
        sys \in TroubledSystems}

\* the advisory side when the arbiter starts: API key, usage file, a cached
\* answer under the key of this input
ArbiterAdvisory(t) ==
    {[keyed |-> FALSE, file |-> ZeroUsage(toDateString(t)), cached |-> Null]}
    \cup
    {[keyed |-> TRUE, file |-> f, cached |-> cd] :
        f \in {UsageOn(toDateString(t), DocumentedDailyLimit, 12),
               UsageOn(toDateString(t), maxDailyRequests, 50)},
        cd \in {Null, Val(<<>>), Val(<<":bulb: Earlier answer">>)}}

InitArbiter ==
    /\ now \in ArbiterClocks
    /\ ioOK = TRUE
    /\ \E d \in ArbiterData(now), a \in ArbiterAdvisory(now) :
         /\ hasKey = a.keyed
         /\ usageFile = a.file
         /\ cache = IF a.cached.null THEN EmptyMap
                    ELSE setCached(EmptyMap, prioritizationKey(d, now),
                                   a.cached.v, now)
         /\ cyc = [c \in 1..MaxCycles |->
                     IF c = 1
                     THEN [IdleFrame EXCEPT !.pc = "display", !.data = d]
                     ELSE IdleFrame]
    /\ stored = cache
    /\ result = NoResult
    /\ recorded = 0
    /\ started = 1
    /\ nextTimer = now + UpdateIntervalSeconds
    /\ buttonText = <<":chart:">>
    /\ lastData = [cycle |-> 1, data |-> cyc[1].data]
    /\ published = NotPublished
    /\ collector = IdleCollector
    /\ meeting = NoMeeting

NextArbiter ==
    \/ AdvanceTime
    \/ \E c \in 1..MaxCycles :
         \/ UpdateDisplay(c)
         \/ PrioritizationResponse(c)

SpecArbiter ==
    InitArbiter /\ [][NextArbiter]_vars

----------------------------------------------------------------------------
(* ClaudeRateLimit on its own, driven as test-rate-limiting.js drives it *)

TestKeys ==
    {<<"test-key">>, <<"other-key">>}

TestPayloads ==
    {<<"Test insight">>, <<>>}

RequestTypes ==
    {"insights", "prioritization"}

StartOfTest ==
    2 * SecondsPerDay - cacheTimeoutMinutes * SecondsPerMinute

\* the instants at which the harness makes its calls: around one and two
\* cache lifetimes after the start, the first of them at midnight
TestInstants ==
    {StartOfTest + k * cacheTimeoutMinutes * SecondsPerMinute + d :
        k \in 0..MaxLifetimes, d \in {0 - 1, 0, 1}}

\* rateLimiter.canMakeRequest(type)
CallCanMakeRequest ==
    /\ \E type \in RequestTypes :
         result' = [op |-> "canMakeRequest", key |-> <<type>>,
                    ok |-> canMakeRequest(usageFile, ioOK, now),
                    value |-> Null]
    /\ UNCHANGED <<now, usageFile, ioOK, cache, recorded, stored, pipelineVars>>

\* if (rateLimiter.canMakeRequest(type)) rateLimiter.recordRequest(type)
CallRecordRequest ==
    /\ recorded < MaxRecorded
    /\ canMakeRequest(usageFile, ioOK, now)
    /\ \E type \in RequestTypes :
         /\ usageFile' = recordRequest(usageFile, ioOK, now, type)
         /\ result' = [op |-> "recordRequest", key |-> <<type>>, ok |-> TRUE,
                       value |-> Null]
    /\ recorded' = recorded + 1
    /\ UNCHANGED <<now, ioOK, cache, stored, pipelineVars>>

\* rateLimiter.getCached(key)
CallGetCached ==
    /\ \E key \in TestKeys :
         /\ result' = [op |-> "getCached", key |-> key, ok |-> TRUE,
                       value |-> getCachedValue(cache, key, now)]
         /\ cache' = getCachedMap(cache, key, now)
    /\ UNCHANGED <<now, usageFile, ioOK, recorded, stored, pipelineVars>>

\* rateLimiter.setCached(key, data)
CallSetCached ==
    /\ \E key \in TestKeys, data \in TestPayloads :
         /\ cache' = setCached(cache, key, data, now)
         /\ stored' = setCached(stored, key, data, now)
         /\ result' = [op |-> "setCached", key |-> key, ok |-> TRUE,
                       value |-> Val(data)]
    /\ UNCHANGED <<now, usageFile, ioOK, recorded, pipelineVars>>

\* the process ends and a new one constructs its rate limiter: an empty
\* cache, and ensureUsageFile on whatever file the old process left
Restart ==
    /\ usageFile' = ensureUsageFile(usageFile, ioOK, now)
    /\ cache' = EmptyMap
    /\ stored' = EmptyMap
    /\ result' = [op |-> "restart", key |-> <<>>, ok |-> TRUE,
                  value |-> Null]
    /\ UNCHANGED <<now, ioOK, recorded, pipelineVars>>

\* time passes between two calls
Tick ==
    /\ \E t \in TestInstants :
         /\ t > now
         /\ now' = t
    /\ result' = NoResult
    /\ UNCHANGED <<usageFile, ioOK, cache, recorded, stored, pipelineVars>>

InitLimiter ==
    /\ now = StartOfTest
    /\ ioOK \in BOOLEAN
    /\ \E file \in InitialUsage(StartOfTest) :
          usageFile = ensureUsageFile(file, ioOK, StartOfTest)
    /\ cache = EmptyMap
    /\ stored = EmptyMap
    /\ result = NoResult
    /\ recorded = 0
    /\ hasKey = TRUE
    /\ started = 0
    /\ cyc = [c \in 1..MaxCycles |-> IdleFrame]
    /\ nextTimer = StartOfTest + UpdateIntervalSeconds
    /\ buttonText = <<":chart:">>
    /\ lastData = [cycle |-> 0, data |-> NoData]
    /\ published = NotPublished
    /\ collector = IdleCollector
    /\ meeting = NoMeeting

NextLimiter ==
    \/ CallCanMakeRequest
    \/ CallRecordRequest
    \/ CallGetCached
    \/ CallSetCached
    \/ Restart
    \/ Tick

SpecLimiter ==
    InitLimiter /\ [][NextLimiter]_vars

----------------------------------------------------------------------------
(* CalendarDataCollector on its own: getCalendarEvents called again and     *)
(* again while the calendar server and the files of Evolution change        *)

\* the state of extension.js, which calendar-integration.js does not touch
extensionVars ==
    <<usageFile, ioOK, cache, result, recorded, stored, hasKey, cyc, started,
      nextTimer, buttonText, lastData, published>>

\* hour:minute of the day with index day
clock(day, hour, minute) ==
    day * SecondsPerDay + hour * 3600 + minute * SecondsPerMinute

Today ==
    toDateString(StartOfRun)

\* the instants of the calls: before and at midnight, and around the end of
\* the lifetime of a cache entry written at the start
CalendarInstants ==
    {StartOfRun + d :
        d \in {0, 2 * SecondsPerMinute - 1, 2 * SecondsPerMinute,
               calendarCacheTimeout - 1, calendarCacheTimeout,
               calendarCacheTimeout + 2 * SecondsPerMinute}}

Number(t) ==
    Stamp("number", t)

Undefined ==
    Stamp("undefined", 0)

\* what the calendar server may answer
ServerOutcomes ==
    {[status |-> "throw", tuples |-> <<>>],
     [status |-> "timeout", tuples |-> <<>>],
     [status |-> "events", tuples |-> <<>>],
     [status |-> "events",
      tuples |-> <<ServerTuple(<<"Conference">>,
                               Number(clock(Today + ServerRangeDays - 1, 9, 0)),
                               <<>>, Null)>>],
     [status |-> "events",
      tuples |-> <<[ServerTuple(<<"Workshop">>, Number(clock(Today, 23, 59)),
                                <<>>, Null)
                      EXCEPT !.end = Number(clock(Today, 22, 0))]>>],
     [status |-> "events",
      tuples |-> <<ServerTuple(<<>>, Number(clock(Today, 23, 59)), <<>>, Null),
                   ServerTuple(<<" ">>, Number(clock(Today + 1, 9, 0)), <<>>,
                               Null),
                   ServerTuple(<<"Review">>, Undefined, <<>>, Null)>>],
     [status |-> "events",
      tuples |-> <<ServerTuple(<<"Offsite">>, Number(clock(Today + 2, 9, 0)),
                               <<>>, Val(<<"Lisbon">>)),
                   ServerTuple(<<"Dentist">>, Number(clock(Today + 1, 10, 0)),
                               <<>>, Null),
                   ServerTuple(<<"Anna's", " ", "Birthday">>,
                               Number(clock(Today, 23, 59)), <<>>, Null),
                   ServerTuple(<<"Retro">>, Number(clock(Today, 23, 59)),
                               <<>>, Null),
                   ServerTuple(<<"Standup">>, Number(clock(Today, 9, 0)),
                               <<>>, Null),
                   ServerTuple(<<>>, Number(clock(Today, 23, 59)), <<>>, Null),
                   ServerTuple(<<"Lunch">>, Number(clock(Today - 1, 12, 0)),
                               <<"with", " ", "the", " ", "team">>, Null)>>]}

Block(lines) ==
    <<BeginEvent>> \o lines \o <<EndEvent>>

Summary(text) ==
    Line("SUMMARY", text, NoStamp)

DtStart(stamp) ==
    Line("DTSTART", <<>>, stamp)

DtEnd(stamp) ==
    Line("DTEND", <<>>, stamp)

\* one VEVENT with a title, starting late today
ContentToday ==
    Block(<<Summary(<<"Standup">>),
            DtStart(Stamp("datetime", clock(Today, 23, 59)))>>)

\* VEVENTs out of order, one of them excluded, one all-day, one with a
\* DTSTART that is no date, and blocks without SUMMARY or without DTSTART
ContentMixed ==
    Block(<<Summary(<<"Offsite">>),
            DtStart(Stamp("datetime", clock(Today + 2, 9, 0)))>>)
    \o Block(<<DtStart(Stamp("datetime", clock(Today, 23, 59)))>>)
    \o Block(<<Summary(<<"Dentist">>),
               DtStart(Stamp("date", clock(Today + 1, 0, 0)))>>)
    \o Block(<<Summary(<<"Review">>)>>)
    \o Block(<<Summary(<<>>),
               DtStart(Stamp("datetime", clock(Today, 23, 59)))>>)
    \o Block(<<Summary(<<"Labor", " ", "Day">>),
               DtStart(Stamp("date", clock(Today + 1, 0, 0)))>>)
    \o Block(<<Summary(<<"Retro">>), DtStart(Stamp("other", 0)),
               Line("LOCATION", <<"Room", " ", "2">>, NoStamp)>>)
    \o Block(<<Summary(<<"Planning">>), DtStart(Stamp("empty", 0))>>)

\* a VEVENT that ends an hour after its start, and one whose DTEND is two
\* hours before its DTSTART
ContentBackwards ==
    Block(<<Summary(<<"Seminar">>),
            DtStart(Stamp("datetime", clock(Today, 22, 0))),
            DtEnd(Stamp("datetime", clock(Today, 23, 0)))>>)
    \o Block(<<Summary(<<"Workshop">>),
               DtStart(Stamp("datetime", clock(Today, 23, 59))),
               DtEnd(Stamp("datetime", clock(Today, 22, 0)))>>)

\* a VEVENT whose DTSTART has eight characters that are no date
ContentInvalid ==
    ContentToday
    \o Block(<<Summary(<<"Broken">>), DtStart(Stamp("invalid", 0))>>)

\* the rows of a cache.db, one VEVENT each
RowsCache ==
    <<Block(<<Summary(<<"Dentist">>),
              DtStart(Stamp("datetime", clock(Today + 1, 10, 0)))>>),
      Block(<<Summary(<<"Broken">>), DtStart(Stamp("invalid", 0))>>),
      Block(<<Summary(<<"Party">>),
              DtStart(Stamp("datetime", clock(Today + 1, 15, 0))),
              Line("DESCRIPTION", <<"Wedding", " ", "of", " ", "friends">>,
                   NoStamp)>>)>>

File(id, content) ==
    [id |-> id, content |-> content]

\* what the store tier may find: the enabled calendar sources, the
\* calendar.ics files by source directory, the rows of the cache.db files by
\* cache directory
StoreStates ==
    {NoStore,
     [sources |-> <<>>, files |-> <<File("system", ContentToday)>>,
      cacheDirs |-> <<>>],
     [sources |-> <<"system">>, files |-> <<File("system", ContentMixed)>>,
      cacheDirs |-> <<>>],
     [sources |-> <<"work", "home">>,
      files |-> <<File("work", ContentToday)>>,
      cacheDirs |-> <<File("shared", RowsCache)>>],
     [sources |-> <<"work">>, files |-> <<File("work", ContentInvalid)>>,
      cacheDirs |-> <<File("work", <<ContentToday>>)>>],
     [sources |-> <<"home">>, files |-> <<File("home", ContentInvalid)>>,
      cacheDirs |-> <<>>],
     [sources |-> <<"home">>, files |-> <<File("home", ContentBackwards)>>,
      cacheDirs |-> <<>>]}

\* the tail of getCalendarEvents after _collectCalendarData returned events
collected(c, events, t) ==
    [c EXCEPT !.pc = "idle",
              !.wait = "none",
              !.events = <<>>,
              !.raw = events,
              !.cache = <<[data |-> _filterAndProcessEvents(events, t),
                           timestamp |-> t]>>,
              !.returned = [via |-> "collect",
                            events |-> _filterAndProcessEvents(events, t),
                            at |-> t]]

\* one tier of _collectCalendarData has run
Tier(name, outcome, yield) ==
    [name |-> name, outcome |-> outcome, yield |-> yield]

\* getCalendarEvents that returns the cached list however old it is
GetCalendarEventsNoExpiry ==
    /\ collector.pc = "idle"
    /\ IF Len(collector.cache) > 0
       THEN collector' = [collector EXCEPT
                             !.returned = [via |-> "cache",
                                           events |-> collector.cache[1].data,
                                           at |-> now]]
       ELSE collector' = [collector EXCEPT !.pc = "server",
                                           !.events = <<>>,
                                           !.trace = <<>>,
                                           !.raw = <<>>,
                                           !.server = NoOutcome,
                                           !.store = NoStore,
                                           !.wait = "reply"]
    /\ UNCHANGED <<now, meeting, extensionVars>>

\* getCalendarEvents: the cached list while it is fresh, else
\* _collectCalendarData starts with the calendar server
GetCalendarEvents ==
    /\ collector.pc = "idle"
    /\ IF Len(collector.cache) > 0
          /\ now - collector.cache[1].timestamp < calendarCacheTimeout
       THEN collector' = [collector EXCEPT
                             !.returned = [via |-> "cache",
                                           events |-> collector.cache[1].data,
                                           at |-> now]]
       ELSE collector' = [collector EXCEPT !.pc = "server",
                                           !.events = <<>>,
                                           !.trace = <<>>,
                                           !.raw = <<>>,
                                           !.server = NoOutcome,
                                           !.store = NoStore,
                                           !.wait = "reply"]
    /\ UNCHANGED <<now, meeting, extensionVars>>

\* the promise of _readCalendarServerData settles with the outcome and
\* _collectCalendarData goes on: the SQLite tier follows only if events is
\* still empty
settled(outcome) ==
    LET events == _readCalendarServerData(outcome)
        ran == [collector EXCEPT
                   !.server = outcome,
                   !.trace = Append(@, Tier("server", outcome.status,
                                            Len(events)))]
    IN  IF storeTier(events)
        THEN [ran EXCEPT !.pc = "store", !.wait = "none", !.events = events]
        ELSE collected(ran, events, now)

\* the callback of SetTimeRange that adds no timeout
SetTimeRangeDoneNoTimer ==
    /\ collector.pc = "server"
    /\ collector.wait = "reply"
    /\ collector' = [collector EXCEPT !.wait = "none"]
    /\ UNCHANGED <<now, meeting, extensionVars>>

\* the callback of proxy.call('SetTimeRange', ...) with a successful
\* call_finish: GLib.timeout_add(GLib.PRIORITY_DEFAULT, 2000, ...)
SetTimeRangeDone ==
    /\ collector.pc = "server"
    /\ collector.wait = "reply"
    /\ collector' = [collector EXCEPT !.wait = "timer"]
    /\ UNCHANGED <<now, meeting, extensionVars>>

\* reject(error): the proxy cannot be created, or call_finish throws
ServerRejected ==
    /\ collector.pc = "server"
    /\ collector.wait = "reply"
    /\ \E outcome \in ServerOutcomes :
         /\ outcome.status = "throw"
         /\ collector' = settled(outcome)
    /\ UNCHANGED <<now, meeting, extensionVars>>

\* the handler of the EventsAddedOrUpdated signal, connected before the
\* call of SetTimeRange: resolve(events)
EventsAddedOrUpdated ==
    /\ collector.pc = "server"
    /\ \E outcome \in ServerOutcomes :
         /\ outcome.status = "events"
         /\ collector' = settled(outcome)
    /\ UNCHANGED <<now, meeting, extensionVars>>

\* the timeout source runs before any signal: resolve(events), events
\* still empty
TimeoutReached ==
    /\ collector.pc = "server"
    /\ collector.wait = "timer"
    /\ \E outcome \in ServerOutcomes :
         /\ outcome.status = "timeout"
         /\ collector' = settled(outcome)
    /\ UNCHANGED <<now, meeting, extensionVars>>

\* await this._readGnomeCalendarData() returns; getCalendarEvents filters,
\* caches and returns
StoreDone ==
    /\ collector.pc = "store"
    /\ \E store \in StoreStates :
         LET events == _readGnomeCalendarData(store.sources, store, now)
             ran == [collector EXCEPT
                        !.store = store,
                        !.trace = Append(@, Tier("store", "events",
                                                 Len(events)))]
         IN  collector' = collected(ran, collector.events \o events, now)
    /\ UNCHANGED <<now, meeting, extensionVars>>

\* time passes
CalendarTick ==
    /\ \E t \in CalendarInstants :
         /\ t > now
         /\ now' = t
    /\ UNCHANGED <<collector, meeting, extensionVars>>

InitCalendar ==
    /\ now = StartOfRun
    /\ usageFile = ZeroUsage(toDateString(StartOfRun))
    /\ ioOK = TRUE
    /\ cache = EmptyMap
    /\ stored = EmptyMap
    /\ result = NoResult
    /\ recorded = 0
    /\ hasKey = TRUE
    /\ started = 0
    /\ cyc = [c \in 1..MaxCycles |-> IdleFrame]
    /\ nextTimer = StartOfRun + UpdateIntervalSeconds
    /\ buttonText = <<":chart:">>
    /\ lastData = [cycle |-> 0, data |-> NoData]
    /\ published = NotPublished
    /\ collector = IdleCollector
    /\ meeting = NoMeeting

NextCalendar ==
    \/ GetCalendarEvents
    \/ SetTimeRangeDone
    \/ ServerRejected
    \/ EventsAddedOrUpdated
    \/ TimeoutReached
    \/ StoreDone
    \/ CalendarTick

SpecCalendar ==
    InitCalendar /\ [][NextCalendar]_vars

\* the GLib main loop runs every callback it was given: the callback of an
\* asynchronous D-Bus call (with the reply, or with an error once the call
\* times out), the timeout source, and the continuation of an await.  No
\* signal of the calendar server is ever due.
SpecCalendarLive ==
    /\ SpecCalendar
    /\ WF_vars(SetTimeRangeDone \/ ServerRejected)
    /\ WF_vars(TimeoutReached)
    /\ WF_vars(StoreDone)

----------------------------------------------------------------------------
(* MeetingAssistant on its own: extractMeetingLinks and                     *)
(* calculatePreparationTime on the events of MeetingEvents                  *)

\* URLs of the conferencing platforms, of an unknown host with a meeting
\* path, of a document, and of an unknown host whose path names zoom.us
MeetingUrls ==
    {MeetingUrl("zoom.us", "j", "123", "?pwd=x"),
     MeetingUrl("us02web.zoom.us", "meeting", "123", "?pwd=x"),
     MeetingUrl("meet.google.com", "", "abc-defg", ""),
     MeetingUrl("teams.live.com", "meet", "xyz", "?p=1"),
     MeetingUrl("acme.webex.com", "meet", "bob", ""),
     MeetingUrl("meet.jit.si", "", "room", ""),
     MeetingUrl("www.gotomeeting.com", "join", "99", ""),
     MeetingUrl("example.com", "call", "42", ""),
     MeetingUrl("docs.example.com", "d", "spec", ""),
     MeetingUrl("example.com", "meet", "zoom.us", "")}

RECURSIVE urlLists(_)
urlLists(n) ==
    IF n = 0
    THEN {<<>>}
    ELSE urlLists(n - 1)
         \cup {Append(urls, url) : urls \in urlLists(n - 1), url \in MeetingUrls}

MeetingWords ==
    {<<>>, <<"sync">>, <<"team", "meeting">>, <<"daily">>, <<"standup">>,
     <<"one-on-one">>, <<"interview">>, <<"town hall">>, <<"all-hands">>,
     <<"demo">>, <<"review">>, <<"customer">>, <<"urgent", "lunch">>}

\* event.duration in seconds, 0 for an event without one
MeetingDurations ==
    {0, ShortMeeting - 1, ShortMeeting, LongMeeting, LongMeeting + 1}

MeetingEvents ==
    [words : MeetingWords, urls : urlLists(MaxLinks),
     duration : MeetingDurations]

\* meetingAssistant.extractMeetingLinks(event)
ExtractMeetingLinks ==
    /\ meeting' = [meeting EXCEPT
                      !.op = "extractMeetingLinks",
                      !.links = extractMeetingLinks(meeting.event),
                      !.lastIndex = ZeroLastIndex]
    /\ UNCHANGED <<now, collector, extensionVars>>

\* meetingAssistant.calculatePreparationTime(event)
CalculatePreparationTime ==
    /\ meeting' = [meeting EXCEPT
                      !.op = "calculatePreparationTime",
                      !.preparationTime =
                          calculatePreparationTime(meeting.event)]
    /\ UNCHANGED <<now, collector, extensionVars>>

\* meetingAssistant.generatePreparationTasks(event)
GeneratePreparationTasks ==
    /\ meeting' = [meeting EXCEPT
                      !.op = "generatePreparationTasks",
                      !.tasks = generatePreparationTasks(
                                    meeting.event, meeting.lastIndex).tasks,
                      !.lastIndex = generatePreparationTasks(
                                    meeting.event, meeting.lastIndex).lastIndex]
    /\ UNCHANGED <<now, collector, extensionVars>>

InitMeeting ==
    /\ now = StartOfRun
    /\ usageFile = ZeroUsage(toDateString(StartOfRun))
    /\ ioOK = TRUE
    /\ cache = EmptyMap
    /\ stored = EmptyMap
    /\ result = NoResult
    /\ recorded = 0
    /\ hasKey = TRUE
    /\ started = 0
    /\ cyc = [c \in 1..MaxCycles |-> IdleFrame]
    /\ nextTimer = StartOfRun + UpdateIntervalSeconds
    /\ buttonText = <<":chart:">>
    /\ lastData = [cycle |-> 0, data |-> NoData]
    /\ published = NotPublished
    /\ collector = IdleCollector
    /\ \E event \in MeetingEvents : meeting = [NoMeeting EXCEPT !.event = event]

NextMeeting ==
    \/ ExtractMeetingLinks
    \/ CalculatePreparationTime
    \/ GeneratePreparationTasks

SpecMeeting ==
    InitMeeting /\ [][NextMeeting]_vars

----------------------------------------------------------------------------
(* The advisory calls on their own: getClaudeInsights and                   *)
(* getClaudePrioritization called again and again with the same data while  *)
(* time passes.  published holds the last call: which, how its synchronous  *)
(* head ended, when it was made; result holds the call in flight or ended   *)

\* 09:00:00 of the third day
StartOfAdvisory ==
    2 * SecondsPerDay + 9 * 3600

\* the instants of the calls: inside and after the 5-minute and the
\* 10-minute window of the start, and around one cache lifetime after it
AdvisoryInstants ==
    {StartOfAdvisory + m * SecondsPerMinute :
        m \in {0, 4, 5, 9, 10, cacheTimeoutMinutes - 1, cacheTimeoutMinutes}}

\* the data of the cycles, the same in every call of a run
AdvisoryInputs ==
    {[NoData EXCEPT !.weather = [temp |-> "68", condition |-> "Clear"]],
     [NoData EXCEPT !.weather = [temp |-> "68", condition |-> "Clear"],
                    !.tasks = <<Task(<<"Pay rent">>, "high")>>]}

Call(type, outcome, value, ops, t) ==
    [cycle |-> 0, via |-> type, advisory |-> outcome, ai |-> value, at |-> t,
     ops |-> ops]

InFlight(type, key) ==
    [op |-> type, key |-> key, ok |-> FALSE, value |-> Null]

Ended(type, key, value) ==
    [op |-> type, key |-> key, ok |-> TRUE, value |-> value]

\* the synchronous head of an advisory call of the type, under the key
AdvisoryCall(type, key) ==
    LET att == attempt(type, key, hasKey, usageFile, ioOK, cache, now)
    IN  /\ recorded + recordsIn(att.ops) <= MaxRecorded
        /\ usageFile' = att.file
        /\ cache' = att.cache
        /\ recorded' = recorded + recordsIn(att.ops)
        /\ published' = Call(type, att.outcome, att.value, att.ops, now)
        /\ result' = IF att.outcome = "sent" THEN InFlight(type, key)
                     ELSE Ended(type, key, att.value)
        /\ UNCHANGED <<now, ioOK, stored, hasKey, cyc, started, nextTimer,
                       buttonText, lastData, collector, meeting>>

\* DataCollector.getClaudeInsights(data) up to its await
GetClaudeInsights ==
    /\ ~(result.op \in RequestTypes /\ result = InFlight(result.op, result.key))
    /\ AdvisoryCall("insights", insightsKey(lastData.data, now))

\* DataCollector.getClaudePrioritization(data) up to its await
GetClaudePrioritization ==
    /\ ~(result.op \in RequestTypes /\ result = InFlight(result.op, result.key))
    /\ AdvisoryCall("prioritization", prioritizationKey(lastData.data, now))

\* the rest of an advisory call once the service has answered: a
\* successful answer is stored under the key of the request
AdvisoryReply(type, answer, succeeded) ==
    /\ IF succeeded
       THEN /\ cache' = setCached(cache, result.key, answer.v, now)
            /\ stored' = setCached(stored, result.key, answer.v, now)
       ELSE UNCHANGED <<cache, stored>>
    /\ result' = Ended(type, result.key, answer)
    /\ UNCHANGED <<now, usageFile, ioOK, recorded, pipelineVars>>

\* the object getClaudeInsights returns after a reply
insightsAnswer(reply) ==
    Val(insightsValue(reply))

InsightsReplied ==
    /\ result = InFlight("insights", result.key)
    /\ \E reply \in InsightsReplies :
         AdvisoryReply("insights", insightsAnswer(reply), reply.status = "ok")

PrioritizationReplied ==
    /\ result = InFlight("prioritization", result.key)
    /\ \E reply \in PrioritizationReplies :
         AdvisoryReply("prioritization", prioritizationValue(reply),
                       reply.status = "ok")

\* time passes, also while a call is in flight
AdvisoryTick ==
    /\ \E t \in AdvisoryInstants :
         /\ t > now
         /\ now' = t
    /\ UNCHANGED <<usageFile, ioOK, cache, result, recorded, stored,
                   pipelineVars>>

InitAdvisory ==
    /\ now = StartOfAdvisory
    /\ usageFile = ZeroUsage(toDateString(StartOfAdvisory))
    /\ ioOK = TRUE
    /\ cache = EmptyMap
    /\ stored = EmptyMap
    /\ result = NoResult
    /\ recorded = 0
    /\ hasKey = TRUE
    /\ started = 0
    /\ cyc = [c \in 1..MaxCycles |-> IdleFrame]
    /\ nextTimer = StartOfAdvisory + UpdateIntervalSeconds
    /\ buttonText = <<":chart:">>
    /\ \E data \in AdvisoryInputs : lastData = [cycle |-> 0, data |-> data]
    /\ published = NotPublished
    /\ collector = IdleCollector
    /\ meeting = NoMeeting

NextAdvisory ==
    \/ GetClaudeInsights
    \/ InsightsReplied
    \/ GetClaudePrioritization
    \/ PrioritizationReplied
    \/ AdvisoryTick

SpecAdvisory ==
    InitAdvisory /\ [][NextAdvisory]_vars

----------------------------------------------------------------------------
(* Properties of ClaudeRateLimit, checked under SpecLimiter *)

\* what claude-usage.json records for the day of time t, read directly
recordedToday(t) ==
    ioOK /\ usageFile.valid /\ usageFile.date = toDateString(t)

\* C1: canMakeRequest returns false exactly when the usage file holds a
\* record dated today whose requests have reached maxDailyRequests; a record
\* of another day counts as zero usage and the answer is true.
C1_CanMakeRequestExact ==
    result.op = "canMakeRequest" =>
        /\ result.ok =
              ~(recordedToday(now) /\ usageFile.requests >= maxDailyRequests)
        /\ (ioOK /\ usageFile.valid /\ usageFile.date # toDateString(now))
              => result.ok

\* a refusal, after this process recorded the request that reached the limit
C1_Witness ==
    /\ result.op = "canMakeRequest"
    /\ ~result.ok
    /\ recorded = 1
    /\ usageFile.requests = maxDailyRequests

\* C8: getCached(key) returns what setCached(key, payload) stored, unchanged,
\* while now - createdAt < ttl; from now - createdAt >= ttl on it returns a
\* miss and the entry is gone; a key never set is a miss.
C8_CachedWhileFresh ==
    result.op = "getCached" =>
        LET key == result.key
            ttl == cacheTimeoutMinutes * SecondsPerMinute
        IN  IF key \in DOMAIN stored /\ now - stored[key].timestamp < ttl
            THEN /\ result.value = Val(stored[key].data)
                 /\ key \in DOMAIN cache
                 /\ cache[key] = stored[key]
            ELSE /\ result.value = Null
                 /\ key \notin DOMAIN cache

\* a lookup at the very instant the entry's age reaches the ttl
C8_Witness ==
    /\ result.op = "getCached"
    /\ result.key \in DOMAIN stored
    /\ now - stored[result.key].timestamp
          = cacheTimeoutMinutes * SecondsPerMinute
    /\ result.value = Null
    /\ result.key \notin DOMAIN cache

----------------------------------------------------------------------------
(* Properties of the arbiter, checked under SpecArbiter *)

\* the status line on the panel was written by the arbiter from this._lastData
arbiterSpoke ==
    published.cycle > 0 /\ published.cycle = lastData.cycle

\* the advisory tier gave the arbiter nothing it can show
nothingAdvised ==
    published.ai.null \/ published.ai.v = <<>>

\* C4: with a battery level that is a number below 20, or with failed
\* services, the arbiter returns the system-alert line whatever the events,
\* tasks, weather, cache and quota are, and performs no cache lookup, quota
\* operation or advisory call on the way.
C4_CriticalPreempts ==
    arbiterSpoke =>
        LET system == lastData.data.system
            low == /\ system.battery.kind = "number"
                   /\ system.battery.n < LowBatteryThreshold
        IN  (low \/ system.nixosIssues > 0) =>
                /\ buttonText =
                     IF low
                     THEN <<":battery: ", ToString(system.battery.n),
                            "% battery">>
                     ELSE <<":warning: ">> \o system.nixosStatus
                /\ published.ops = <<>>
                /\ published.advisory = "none"
                /\ recorded = 0
                /\ cache = stored

\* low battery shown although an event starts within the minute and an
\* earlier advisory answer is cached
C4_Witness ==
    /\ arbiterSpoke
    /\ published.via = "critical"
    /\ lastData.data.system.battery.n < LowBatteryThreshold
    /\ Len(lastData.data.calendar) > 0
    /\ lastData.data.calendar[1].start - published.at <= SecondsPerMinute
    /\ DOMAIN cache # {}
    /\ Head(buttonText) = ":battery: "

\* C5: whatever the inputs and the advisory outcome, the line the arbiter
\* returns is a non-empty string; with no events, no tasks, no critical
\* system issue and no advisory result it is the weather line.
C5_LineNeverEmpty ==
    arbiterSpoke =>
        /\ \E i \in DOMAIN buttonText : buttonText[i] # ""
        /\ (/\ lastData.data.calendar = <<>>
            /\ lastData.data.tasks = <<>>
            /\ published.via # "critical"
            /\ nothingAdvised)
              => buttonText = weatherLine(lastData.data.weather)

\* the advisory call succeeded with an empty answer and nothing else is
\* known: the weather line is shown
C5_Witness ==
    /\ arbiterSpoke
    /\ published.advisory = "ok"
    /\ published.ai = Val(<<>>)
    /\ lastData.data.calendar = <<>>
    /\ lastData.data.tasks = <<>>
    /\ buttonText = weatherLine(lastData.data.weather)

\* The rule of the fallback ladder that applies to data at time t, when an
\* event counts as imminent if it starts less than `imminent` seconds from t
\* and as upcoming if it starts less than `upcoming` seconds from t.
ladderRule(data, t, imminent, upcoming) ==
    LET events == {data.calendar[i] : i \in DOMAIN data.calendar}
    IN  IF \E e \in events : e.start - t < imminent THEN "a"
        ELSE IF \E i \in DOMAIN data.tasks : data.tasks[i].priority = "high"
        THEN "b"
        ELSE IF \E e \in events : e.start - t < upcoming THEN "c"
        ELSE IF \E i \in DOMAIN data.tasks : data.tasks[i].priority = "medium"
        THEN "d"
        ELSE IF \E e \in events :
                   e.start > t /\ toDateString(e.start) = toDateString(t)
        THEN "e"
        ELSE "f"

\* the first task of the given priority, in list order
firstTask(data, priority) ==
    data.tasks[CHOOSE i \in DOMAIN data.tasks :
                  /\ data.tasks[i].priority = priority
                  /\ \A j \in 1..(i - 1) : data.tasks[j].priority # priority]

\* line is what the given rule of the ladder shows for data
showsRule(line, rule, data) ==
    CASE rule = "a" ->
            Head(line) = ":siren: " /\ line[2] = data.calendar[1].title[1]
      [] rule = "b" ->
            /\ Head(line) \in {":zap: ", ":target: "}
            /\ line[2] = firstTask(data, "high").title[1]
      [] rule = "c" ->
            /\ Head(line) \in {":camera: ", ":pin: ", ":calendar: "}
            /\ line[2] = data.calendar[1].title[1]
      [] rule = "d" ->
            /\ Head(line) = ":clipboard: "
            /\ line[2] = firstTask(data, "medium").title[1]
      [] rule = "e" ->
            Head(line) = ":calendar: " /\ line[2] = data.calendar[1].title[1]
      [] OTHER ->
            line = weatherLine(data.weather)

\* the arbiter went down the fallback ladder
fellBack ==
    arbiterSpoke /\ published.via = "advisory" /\ nothingAdvised

C7_FailureFallsBack ==
    (/\ arbiterSpoke
     /\ \/ published.advisory \in {"exception", "httpError", "limited"}
        \/ published.advisory = "ok" /\ published.ai = Val(<<>>))
        => buttonText = _getFallbackDisplay(lastData.data, published.at)

\* the call was sent and failed; the line is the ladder's, here a task's
C7_Witness ==
    /\ arbiterSpoke
    /\ published.advisory = "httpError"
    /\ published.ops # <<>>
    /\ lastData.data.tasks # <<>>
    /\ Head(buttonText) \in {":zap: ", ":target: ", ":clipboard: "}
    /\ buttonText = _getFallbackDisplay(lastData.data, published.at)

----------------------------------------------------------------------------
(* Properties of the update cycle, checked under Spec *)

\* in a sequence of operations, each send directly follows a recordRequest of
\* its call type, which directly follows a canMakeRequest of that type that
\* returned true
sendsAreRecorded(ops) ==
    \A i \in DOMAIN ops :
        ops[i][2] = "send" =>
            /\ i > 2
            /\ ops[i - 1] = Op(ops[i][1], "recordRequest", "")
            /\ ops[i - 2] = Op(ops[i][1], "canMakeRequest", "true")

\* C2: in every cycle, each advisory call sent (insights or prioritization)
\* is preceded by a canMakeRequest that returned true and by a recordRequest
\* of that call type made before the send, so that a call whose reply is a
\* failure has been recorded all the same.
C2_RecordedBeforeSent ==
    /\ \A c \in 1..MaxCycles : sendsAreRecorded(cyc[c].log)
    /\ sendsAreRecorded(published.ops)
    /\ published.advisory \in {"ok", "httpError", "exception"}
          => recordsIn(published.ops) = 1

\* a prioritization call that failed after it was recorded in the usage file
C2_Witness ==
    /\ published.advisory = "httpError"
    /\ published.ops = <<Op("prioritization", "getCached", "miss"),
                         Op("prioritization", "canMakeRequest", "true"),
                         Op("prioritization", "recordRequest", ""),
                         Op("prioritization", "send", "")>>
    /\ recordedToday(published.at)
    /\ usageFile.prioritization > DocumentedDailyLimit - 12

\* C3: within one calendar day the number of advisory requests recorded never
\* exceeds 24: no step takes the day's count from 24 or less to more than 24.
C3_AtMostDocumentedLimit ==
    [][(/\ usageFile.valid
        /\ usageFile'.valid
        /\ usageFile'.date = usageFile.date
        /\ usageFile.requests <= DocumentedDailyLimit)
          => usageFile'.requests <= DocumentedDailyLimit]_vars

\* C9: the status line on the panel is that of the latest started cycle among
\* those that have completed: a cycle that started earlier never writes it
\* after a cycle that started later has.
C9_LatestWins ==
    \A c \in 1..MaxCycles : cyc[c].pc = "done" => c <= published.cycle

\* C10: every cycle that ends has written a status line produced by the
\* arbiter -- the alert line, the advisory answer or the fallback line for
\* its data -- and none ends in the catch block of _updateData, whichever
\* collaborators failed.
C10_CycleEndsWithArbiterLine ==
    /\ \A c \in 1..MaxCycles : cyc[c].pc = "done" => published.cycle > 0
    /\ published.cycle > 0 =>
          /\ published.via \in {"critical", "advisory"}
          /\ buttonText # ErrorText
          /\ \E i \in DOMAIN buttonText : buttonText[i] # ""
    /\ (arbiterSpoke /\ published.via = "critical")
          => buttonText = critical(lastData.data.system).v
    /\ (arbiterSpoke /\ published.via = "advisory")
          => buttonText = afterAdvisory(lastData.data, published.ai,
                                        published.at)

\* weather, tasks and the prioritization call all failed, and the cycle
\* ended with the fallback line for the placeholder data
C10_Witness ==
    /\ arbiterSpoke
    /\ cyc[published.cycle].pc = "done"
    /\ lastData.data.weather = [temp |-> "--", condition |-> "Error"]
    /\ lastData.data.tasks[1].title = <<"Todoist service unavailable">>
    /\ published.advisory = "exception"
    /\ buttonText = <<":clipboard: ", "Todoist service unavailable">>

----------------------------------------------------------------------------
(* Properties of CalendarDataCollector, checked under SpecCalendar *)

\* the tiers the current or last acquisition has run, by name
tiersRun ==
    [i \in DOMAIN collector.trace |-> collector.trace[i].name]

\* the acquisition has run the tier with this name and it yielded n events
yielded(name, n) ==
    \E i \in DOMAIN collector.trace :
        collector.trace[i].name = name /\ collector.trace[i].yield = n

\* C11: the tiers of an acquisition run strictly one after the other, the
\* calendar server first: the store tier starts only after the server tier
\* has finished, and only if the server tier yielded no event (it returned
\* none, timed out or threw); when the server tier yields at least one
\* event, no later tier runs.
C11_TiersInSequence ==
    /\ tiersRun \in {<<>>, <<"server">>, <<"server", "store">>}
    /\ collector.pc = "server" => tiersRun = <<>>
    /\ collector.pc = "store" => tiersRun = <<"server">>
    /\ (collector.pc = "store" \/ Len(tiersRun) = 2)
          => /\ collector.trace[1].yield = 0
             /\ collector.trace[1].outcome \in {"events", "timeout", "throw"}
    /\ (Len(tiersRun) >= 1 /\ collector.trace[1].yield > 0)
          => /\ tiersRun = <<"server">>
             /\ collector.pc = "idle"

\* the server timed out, and the store tier ran after it and found events
C11_Witness ==
    /\ tiersRun = <<"server", "store">>
    /\ collector.trace[1].outcome = "timeout"
    /\ collector.trace[2].yield > 0
    /\ collector.pc = "idle"

\* the events of the flat-file export that are valid, not excluded and
\* start today or later, as of the instant t
flatFileEvents(store, t) ==
    SelectSeq(_readEvolutionICS(store, t),
              LAMBDA e : ~shouldExclude(e) /\ e.start >= midnightBefore(t))

isIn(e, events) ==
    \E i \in DOMAIN events : events[i] = e

\* C12: an acquisition returns the empty list only if the calendar server,
\* the structured store and the flat-file export all yielded nothing; when
\* the first two yield nothing and the flat-file export holds a valid,
\* non-excluded event starting today or later, that event is in the output.
C12_FlatFileIsLastResort ==
    (collector.pc = "idle" /\ collector.returned.via = "collect"
       /\ yielded("server", 0) /\ yielded("store", 0))
       => \A i \in DOMAIN flatFileEvents(collector.store,
                                         collector.returned.at) :
             isIn(flatFileEvents(collector.store, collector.returned.at)[i],
                  collector.returned.events)

\* C13: the list getCalendarEvents returns never holds two events with the
\* same title and the same start; of several raw copies of one event the
\* copy with the highest confidence is the one kept.
C13_OneCopyPerTitleAndStart ==
    LET events == collector.returned.events
    IN  /\ \A i, j \in DOMAIN events :
              (i < j) => ~(/\ events[i].title = events[j].title
                           /\ events[i].start = events[j].start)
        /\ \A i \in DOMAIN events, k \in DOMAIN collector.raw :
              (/\ collector.returned.via = "collect"
               /\ collector.raw[k].title = events[i].title
               /\ collector.raw[k].start = events[i].start)
                 => collector.raw[k].confidence <= events[i].confidence

\* the title or the description of the event holds the word, in any case
mentions(e, word) ==
    \/ \E i \in DOMAIN e.title : toLowerCase(e.title[i]) = word
    \/ \E i \in DOMAIN e.description : toLowerCase(e.description[i]) = word

\* the title or the description of the event holds the two words in a row
mentionsPair(e, pair) ==
    \/ \E i \in 1..(Len(e.title) - 2) :
          /\ toLowerCase(e.title[i]) = pair[1]
          /\ e.title[i + 1] = " "
          /\ toLowerCase(e.title[i + 2]) = pair[2]
    \/ \E i \in 1..(Len(e.description) - 2) :
          /\ toLowerCase(e.description[i]) = pair[1]
          /\ e.description[i + 1] = " "
          /\ toLowerCase(e.description[i + 2]) = pair[2]

\* the event is a holiday, a birthday or an anniversary by the patterns of
\* EventFilter
isExcludedOccasion(e) ==
    \/ \E word \in PatternWords : mentions(e, word)
    \/ \E pair \in PatternPairs : mentionsPair(e, pair)

\* C14: no event that the exclusion filter matches is ever in the list
\* getCalendarEvents returns, whether the list was freshly collected or
\* came from the cache.
C14_NoExcludedEventReturned ==
    /\ \A i \in DOMAIN collector.returned.events :
          ~isExcludedOccasion(collector.returned.events[i])
    /\ \A c \in DOMAIN collector.cache :
          \A i \in DOMAIN collector.cache[c].data :
              ~isExcludedOccasion(collector.cache[c].data[i])

\* a collection that found a birthday among other events was answered
\* again from the cache
C14_Witness ==
    /\ collector.returned.via = "cache"
    /\ Len(collector.returned.events) > 0
    /\ \E k \in DOMAIN collector.raw :
          /\ mentions(collector.raw[k], "birthday")
          /\ collector.raw[k].start >= midnightBefore(collector.returned.at)

\* 0 for an event of the day of t, 1 for the day after, 2 for any later
\* day, and -1 for an earlier day
bucket(e, t) ==
    IF toDateString(e.start) < toDateString(t) THEN 0 - 1
    ELSE IF toDateString(e.start) = toDateString(t) THEN 0
    ELSE IF toDateString(e.start) = toDateString(t) + 1 THEN 1
    ELSE 2

\* C15: in the returned list today's events come before tomorrow's, and
\* tomorrow's before all later ones; the events of one day bucket are in
\* ascending order of start.
C15_BucketsThenStart ==
    LET events == collector.returned.events
        t == collector.returned.at
    IN  \A i, j \in DOMAIN events :
           (i < j) =>
              /\ bucket(events[i], t) <= bucket(events[j], t)
              /\ bucket(events[i], t) = bucket(events[j], t)
                    => events[i].start <= events[j].start

\* the server delivered a later event first, and the returned list has an
\* event of today, one of tomorrow and one of a later day
C15_Witness ==
    LET events == collector.returned.events
        t == collector.returned.at
    IN  /\ collector.returned.via = "collect"
        /\ Len(collector.raw) > 0
        /\ bucket(collector.raw[1], t) = 2
        /\ \E i, j, k \in DOMAIN events :
              /\ bucket(events[i], t) = 0
              /\ bucket(events[j], t) = 1
              /\ bucket(events[k], t) = 2

\* the tuple has a title that is not blank, and a start
completeTuple(tuple) ==
    /\ \E i \in DOMAIN tuple.summary : tuple.summary[i] \notin {"", " "}
    /\ tuple.start.kind = "number"

\* the number of VEVENT blocks of the lines that have both a SUMMARY and a
\* DTSTART with a value
RECURSIVE completeBlocks(_, _, _, _)
completeBlocks(lines, open, titled, dated) ==
    IF lines = <<>>
    THEN 0
    ELSE IF Head(lines) = BeginEvent
    THEN completeBlocks(Tail(lines), TRUE, FALSE, FALSE)
    ELSE IF Head(lines) = EndEvent /\ open
    THEN (IF titled /\ dated THEN 1 ELSE 0)
         + completeBlocks(Tail(lines), FALSE, FALSE, FALSE)
    ELSE IF open /\ Head(lines).key = "SUMMARY"
    THEN completeBlocks(Tail(lines), open, Head(lines).text # <<>>, dated)
    ELSE IF open /\ Head(lines).key = "DTSTART"
    THEN completeBlocks(Tail(lines), open, titled,
                        Head(lines).stamp.kind \notin {"absent", "empty"})
    ELSE completeBlocks(Tail(lines), open, titled, dated)

\* the calendar texts the store tier had before it: every calendar.ics and
\* every row of every cache.db
textsOf(store) ==
    {store.files[i].content : i \in DOMAIN store.files}
    \cup UNION {{store.cacheDirs[i].content[k] :
                    k \in DOMAIN store.cacheDirs[i].content} :
                i \in DOMAIN store.cacheDirs}

\* C16: for a raw record without a title or without a start the parsers
\* emit no event: the server tier yields one event per tuple that has both,
\* _parseICSContent one event per VEVENT block that has both, and no
\* collected event is untitled.
C16_IncompleteRecordsEmitNothing ==
    /\ Len(collector.trace) >= 1
          => collector.trace[1].yield
                = Cardinality({i \in DOMAIN collector.server.tuples :
                                  completeTuple(collector.server.tuples[i])})
    /\ \A text \in textsOf(collector.store), t \in CalendarInstants :
          ~_parseICSContent(text, t).threw
             => Len(_parseICSContent(text, t).value)
                   = completeBlocks(text, FALSE, FALSE, FALSE)
    /\ \A k \in DOMAIN collector.raw : Len(collector.raw[k].title) > 0

\* the server delivered only tuples without title or start, the store tier
\* then parsed a calendar.ics with complete and incomplete blocks
C16_Witness ==
    /\ Len(collector.trace) = 2
    /\ Len(collector.server.tuples) > 0
    /\ collector.trace[1].yield = 0
    /\ \E text \in textsOf(collector.store) :
          /\ completeBlocks(text, FALSE, FALSE, FALSE) > 0
          /\ completeBlocks(text, FALSE, FALSE, FALSE)
                < Cardinality({i \in DOMAIN text : text[i] = BeginEvent})
    /\ Len(collector.raw) > 0

----------------------------------------------------------------------------
(* Restart of ClaudeRateLimit, checked under SpecLimiter *)

\* the number of requests used today that a rate limiter reads from the file
usedToday(file) ==
    getUsageData(file, ioOK, now).requests

\* C18: the usage recorded survives a restart of the process: constructing
\* a rate limiter leaves an existing usage file as it is, the new rate
\* limiter reads the same used count for the day as the old one, and it
\* refuses requests if the old one did.
C18_UsageSurvivesRestart ==
    [][result'.op = "restart" =>
          /\ usageFile.exists => usageFile' = usageFile
          /\ usedToday(usageFile') = usedToday(usageFile)
          /\ canMakeRequest(usageFile', ioOK, now)
                = canMakeRequest(usageFile, ioOK, now)
          /\ (recordedToday(now) /\ usageFile.requests >= maxDailyRequests)
                => ~canMakeRequest(usageFile', ioOK, now)]_vars

\* the process that recorded the request reaching the limit has been
\* replaced, and the file still holds the limit for today
C18_Witness ==
    /\ result.op = "restart"
    /\ recorded = 1
    /\ recordedToday(now)
    /\ usageFile.requests = maxDailyRequests
    /\ ~canMakeRequest(usageFile, ioOK, now)

----------------------------------------------------------------------------
(* Storage errors of ClaudeRateLimit, checked under Spec *)

\* the rate-limiter operations that cycle c performs in this step, when the
\* step is the head of one of its advisory calls
attemptedNow(c) ==
    IF cyc[c].pc = "display" /\ cyc'[c].pc = "done"
    THEN published'.ops
    ELSE IF cyc[c].pc \in {"insights", "display"}
    THEN SubSeq(cyc'[c].log, Len(cyc[c].log) + 1, Len(cyc'[c].log))
    ELSE <<>>

answered(ops, answer) ==
    \E i \in DOMAIN ops : ops[i][2] = "canMakeRequest" /\ ops[i][3] = answer

sent(ops) ==
    \E i \in DOMAIN ops : ops[i][2] = "send"

\* claude-usage.json cannot be read or parsed
unreadable ==
    ~ioOK \/ ~usageFile.exists \/ ~usageFile.valid

\* claude-usage.json cannot be replaced
unwritable ==
    ~ioOK \/ ~usageFile.writable

\* C17: when the usage file cannot be read or parsed, canMakeRequest answers
\* true as for zero usage; when it cannot be written, recordRequest does not
\* throw and the cycle goes on to send the call, the file left as it was; and
\* when the usage read is at the daily maximum, the call is refused and
\* nothing is recorded or sent.
C17_FailOpenOnStorageClosedOnQuota ==
    [][\A c \in 1..MaxCycles :
          LET ops == attemptedNow(c)
              exhausted ==
                  /\ ~unreadable
                  /\ usageFile.date = toDateString(now)
                  /\ usageFile.requests >= maxDailyRequests
          IN  (answered(ops, "true") \/ answered(ops, "false")) =>
                 /\ unreadable => answered(ops, "true")
                 /\ (unwritable /\ answered(ops, "true"))
                       => /\ sent(ops)
                          /\ cyc'[c].pc \in {"insightsAwait", "prioAwait"}
                          /\ usageFile' = usageFile
                          /\ recorded' = recorded + 1
                 /\ exhausted
                       => /\ answered(ops, "false")
                          /\ ~sent(ops)
                          /\ cyc'[c].pc \notin {"insightsAwait", "prioAwait"}
                          /\ usageFile' = usageFile
                          /\ recorded' = recorded]_vars

\* the usage file can be neither parsed nor replaced, and a cycle has sent
\* both of its advisory calls
C17_Witness ==
    /\ ~ioOK
    /\ usageFile = CorruptUsage
    /\ \E c \in 1..MaxCycles :
          /\ cyc[c].pc = "prioAwait"
          /\ \E i, j \in DOMAIN cyc[c].log :
                /\ cyc[c].log[i] = Op("insights", "send", "")
                /\ cyc[c].log[j] = Op("prioritization", "send", "")

----------------------------------------------------------------------------
(* The acquisitions of a cycle, checked under Spec *)

Acquisitions ==
    {"weather", "calendar", "tasks", "system"}

\* the collectors _updateData has called when it is at the given await of
\* its object literal
acquisitionsStarted(pc) ==
    CASE pc = "idle" -> {}
      [] pc = "weather" -> {"weather"}
      [] pc = "calendar" -> {"weather", "calendar"}
      [] pc = "tasks" -> {"weather", "calendar", "tasks"}
      [] OTHER -> Acquisitions

\* C19: within a cycle the four acquisitions are started independently of
\* each other and joined before arbitration: while any of them is still
\* awaited, all four have been started.
C19_AcquisitionsStartTogether ==
    \A c \in 1..MaxCycles :
        cyc[c].pc \in {"weather", "calendar", "tasks"}
            => acquisitionsStarted(cyc[c].pc) = Acquisitions

----------------------------------------------------------------------------
(* The high-priority task line, checked under SpecArbiter *)

\* the high-priority tasks, in the order of the task source
highTasks(data) ==
    SelectSeq(data.tasks, LAMBDA task : task.priority = "high")

\* line names the first high-priority task of data, followed by `(+N-1)`
\* exactly when there are N > 1 of them
namesFirstHighTask(line, data) ==
    LET n == Len(highTasks(data))
    IN  /\ Head(line) \in {":zap: ", ":target: "}
        /\ Tail(line)
              = highTasks(data)[1].title
                \o (IF n > 1 THEN <<" (+", ToString(n - 1), ")">> ELSE <<>>)

\* no event of data starts less than `imminent` seconds from t
noEventWithin(data, t, imminent) ==
    \A i \in DOMAIN data.calendar : data.calendar[i].start - t >= imminent

----------------------------------------------------------------------------
(* The weather rule, checked under SpecArbiter *)

\* the condition keywords of the weather rule, in their order of precedence,
\* and the icon of each
KeywordOrder ==
    <<"Thunder", "Rain", "Snow", "Fog", "Cloud", "Clear">>

KeywordIcon ==
    <<":thunder:", ":rain:", ":snow:", ":fog:", ":cloud:", ":sun:">>

\* the positions in KeywordOrder of the keywords the condition contains
keywordsIn(condition) ==
    {i \in DOMAIN KeywordOrder : includes(condition, KeywordOrder[i])}

\* the ladder went down to the weather rule
reachedWeather ==
    /\ fellBack
    /\ ladderRule(lastData.data, published.at,
                  (ImminentMinutes + 1) * SecondsPerMinute,
                  (UpcomingMinutes + 1) * SecondsPerMinute) = "f"

\* C21: when the ladder reaches the weather rule, the icon is that of the
\* first keyword the condition contains, in the order thunder, rain, snow,
\* fog, cloud, clear, and the partly-cloudy icon is shown only for a
\* condition that contains none of them; with the quota exhausted, no
\* events, no tasks and the condition 'Thunderstorm' the icon is the thunder
\* icon.
C21_FirstKeywordIcon ==
    reachedWeather =>
        LET condition == lastData.data.weather.condition
            found == keywordsIn(condition)
        IN  /\ found # {}
                  => Head(buttonText)
                        = KeywordIcon[CHOOSE i \in found :
                                         \A j \in found : i <= j]
            /\ Head(buttonText) = ":partly:" => found = {}
            /\ buttonText[5] = condition
            /\ (/\ published.advisory = "limited"
                /\ lastData.data.calendar = <<>>
                /\ lastData.data.tasks = <<>>
                /\ condition = "Thunderstorm")
                  => Head(buttonText) = ":thunder:"

\* the quota is exhausted and the condition names rain and thunder: the
\* thunder icon
C21_Witness ==
    /\ reachedWeather
    /\ published.advisory = "limited"
    /\ lastData.data.calendar = <<>>
    /\ lastData.data.weather.condition = "Rain, Thunderstorm"
    /\ Head(buttonText) = ":thunder:"

----------------------------------------------------------------------------
(* Properties of MeetingAssistant, checked under SpecMeeting *)

\* the platforms detectMeetingPlatform names
NamedPlatforms ==
    {"zoom", "google-meet", "teams", "webex", "jitsi", "gotomeeting"}

C23_PreparationTimeClamped ==
    meeting.op = "calculatePreparationTime" =>
        /\ meeting.preparationTime \in Int
        /\ meeting.preparationTime >= MinPreparation
        /\ meeting.preparationTime <= MaxPreparation

\* an urgent interview of more than two hours: 30 minutes, where the
\* product of the factors is 67.5
C23_Witness ==
    /\ meeting.op = "calculatePreparationTime"
    /\ detectMeetingType(meeting.event) = "interview"
    /\ calculateMeetingUrgency(meeting.event) = "high"
    /\ meeting.event.duration > LongMeeting
    /\ quarters(meeting.event) > 4 * MaxPreparation
    /\ meeting.preparationTime = MaxPreparation

----------------------------------------------------------------------------
(* The calendar-server tier, checked under SpecCalendarLive *)

\* C24: the calendar-server tier always settles.  When no events signal
\* arrives before the timeout added after the time-range request, the tier
\* resolves with no events, which is no error, and the acquisition goes on
\* to the store tier; and a tier that has started does not stay waiting.
C24_ServerTierSettles ==
    /\ [](\A i \in DOMAIN collector.trace :
             (collector.trace[i].name = "server"
              /\ collector.trace[i].outcome = "timeout")
                => /\ collector.trace[i].yield = 0
                   /\ \/ collector.pc = "store"
                      \/ /\ i < Len(collector.trace)
                         /\ collector.trace[i + 1].name = "store")
    /\ (collector.pc = "server") ~> (collector.pc # "server")
    /\ (collector.pc = "server" /\ collector.wait = "timer")
          ~> (collector.pc # "server")

\* the timeout was reached and the store tier supplied the events returned
C24_Witness ==
    /\ collector.pc = "idle"
    /\ Len(collector.trace) = 2
    /\ collector.trace[1] = Tier("server", "timeout", 0)
    /\ collector.trace[2].name = "store"
    /\ collector.trace[2].yield > 0
    /\ collector.returned.via = "collect"
    /\ Len(collector.returned.events) > 0

----------------------------------------------------------------------------
(* The task source, checked under Spec *)

\* the task rules of _getFallbackDisplay would fire for these tasks
taskRuleFires(tasks) ==
    \E i \in DOMAIN tasks : tasks[i].priority \in {"high", "medium"}

\* C25: when the task source fails (no key, a status other than 200, an
\* exception), getTasks returns and the task list of the cycle is empty,
\* so that no task rule of the ladder can fire for it.
C25_FailedSourceGivesNoTasks ==
    \A c \in 1..MaxCycles :
       cyc[c].taskSource \in {"nokey", "httpError", "exception"}
          => /\ cyc[c].data.tasks = <<>>
             /\ ~taskRuleFires(cyc[c].data.tasks)

----------------------------------------------------------------------------
(* Malformed records, checked under SpecCalendar *)

\* the records of a calendar text: the lines between a BEGIN:VEVENT and the
\* next END:VEVENT
Records(lines) ==
    {SubSeq(lines, p[1] + 1, p[2] - 1) :
        p \in {q \in (DOMAIN lines) \X (DOMAIN lines) :
                  /\ q[1] < q[2]
                  /\ lines[q[1]] = BeginEvent
                  /\ lines[q[2]] = EndEvent
                  /\ \A k \in (q[1] + 1)..(q[2] - 1) :
                        lines[k] \notin {BeginEvent, EndEvent}}}

\* the record has a title and a start that is a date or a date and time,
\* and the events hold an Event with this title and start
wellFormedAndEmitted(record, events) ==
    \A a, b \in DOMAIN record :
       (/\ record[a].key = "SUMMARY"
        /\ Len(record[a].text) > 0
        /\ record[b].key = "DTSTART"
        /\ record[b].stamp.kind \in {"date", "datetime"})
          => \E i \in DOMAIN events :
                /\ events[i].title = record[a].text
                /\ events[i].start
                      = _parseICSDateTime(record[b].stamp, 0).value

\* C26: a malformed record of a raw calendar input, also one whose start is
\* no date, is dropped without raising, and every well-formed record of the
\* same input still yields its Event: after the store tier has read the
\* file of an enabled source, each well-formed record of the file is among
\* the events collected.
C26_WellFormedRecordsSurvive ==
    (collector.pc = "idle" /\ Len(collector.trace) = 2) =>
        \A i \in DOMAIN collector.store.sources,
           f \in DOMAIN collector.store.files :
           collector.store.files[f].id = collector.store.sources[i]
              => \A record \in Records(collector.store.files[f].content) :
                    wellFormedAndEmitted(record, collector.raw)

----------------------------------------------------------------------------
(* Start and end of the events returned, checked under SpecCalendar *)

\* C27: every Event the parsers emit and getCalendarEvents returns has
\* start <= end, also when the raw record carries an end earlier than
\* its start.
C27_StartNotAfterEnd ==
    /\ \A i \in DOMAIN collector.raw :
          collector.raw[i].start <= collector.raw[i].end
    /\ \A i \in DOMAIN collector.returned.events :
          collector.returned.events[i].start
             <= collector.returned.events[i].end

----------------------------------------------------------------------------
(* The horizon of the events returned, checked under SpecCalendar *)

\* C28: every event getCalendarEvents returns starts today, tomorrow or
\* within the 7 days counted from today; an event that starts after that
\* is never in the list.
C28_WithinSevenDays ==
    \A i \in DOMAIN collector.returned.events :
       /\ collector.returned.events[i].start
             >= midnightBefore(collector.returned.at)
       /\ collector.returned.events[i].start
             < nextWeek(collector.returned.at)

----------------------------------------------------------------------------
(* The lifetime of advisory answers, checked under SpecAdvisory *)

\* the insights answers stored before the instant t and less than
\* cacheTimeoutMinutes old at t
insightsStoredWithinLifetime(t) ==
    {k \in DOMAIN stored :
        /\ k[1] = "insights"
        /\ stored[k].timestamp < t
        /\ t - stored[k].timestamp < cacheTimeoutMinutes * SecondsPerMinute}

\* C29: with the inputs of the context unchanged, a successful insights
\* answer can be served from the cache for 60 minutes: an insights request
\* with the same data made within that time sends no request to the service.
C29_InsightsServedForAnHour ==
    (published.via = "insights"
     /\ insightsStoredWithinLifetime(published.at) # {})
        => published.advisory = "hit"

\* C30: a prioritization answer is never served from the cache more than 5
\* minutes after it was stored.
C30_PrioritizationServedFiveMinutes ==
    (published.via = "prioritization" /\ published.advisory = "hit") =>
        /\ result.key \in DOMAIN stored
        /\ published.ai = Val(stored[result.key].data)
        /\ published.at - stored[result.key].timestamp
              <= PrioritizationWindowMinutes * SecondsPerMinute

\* an answer stored at 09:00 was served four minutes later
C30_Witness ==
    /\ published.via = "prioritization"
    /\ published.advisory = "hit"
    /\ result.key \in DOMAIN stored
    /\ stored[result.key].timestamp = StartOfAdvisory
    /\ published.at = StartOfAdvisory + 4 * SecondsPerMinute

\* continued operation: the pipeline keeps calling (the update timer fires
\* every UpdateIntervalSeconds), every request is answered or fails, and
\* time passes
SpecAdvisoryLive ==
    /\ SpecAdvisory
    /\ WF_vars(GetClaudeInsights)
    /\ WF_vars(GetClaudePrioritization)
    /\ WF_vars(InsightsReplied)
    /\ WF_vars(PrioritizationReplied)
    /\ WF_vars(AdvisoryTick)

----------------------------------------------------------------------------
(* The status line and outstanding advisory calls, checked under Spec *)

\* C31: the status line of a cycle is computed and published without
\* waiting for an advisory call that is still outstanding: while the
\* insights call of a cycle is in flight, the cycle has already written its
\* alert or its fallback line.
C31_StatusLineNotBehindInsights ==
    \A c \in 1..MaxCycles :
       cyc[c].pc = "insightsAwait" => published.cycle = c

----------------------------------------------------------------------------
(* Timer ticks and cycles in flight, checked under Spec *)

\* C32: every timer tick starts a new cycle, also while an earlier cycle
\* is awaiting an advisory call: a due tick can always start its cycle, and
\* the start leaves the cycles in flight as they are.
C32_TickStartsCycle ==
    /\ []((now >= nextTimer /\ started < MaxCycles) => ENABLED StartCycle)
    /\ [][StartCycle =>
             /\ cyc'[started + 1].pc = "weather"
             /\ \A c \in 1..started : cyc'[c] = cyc[c]]_vars

\* the second cycle has started while the first awaits its advisory call
C32_Witness ==
    /\ started = 2
    /\ cyc[1].pc \in {"insightsAwait", "prioAwait"}
    /\ cyc[2].pc = "weather"
    /\ now = StartOfRun + UpdateIntervalSeconds

----------------------------------------------------------------------------
(* The cache of getCalendarEvents, checked under SpecCalendar *)

\* the 'calendar_events' entry is less than 5 minutes old
withinFiveMinutes ==
    /\ Len(collector.cache) > 0
    /\ now - collector.cache[1].timestamp < 5 * SecondsPerMinute

----------------------------------------------------------------------------
(* The document tasks of generatePreparationTasks, checked under            *)
(* SpecMeeting                                                              *)

\* C34: every "Review document" task that generatePreparationTasks returns
\* is for a URL that none of the conferencing-link patterns matches,
\* whatever the number and order of the URLs of the event and whatever
\* calls were made before
C34_DocumentTasksOnlyForOtherUrls ==
    meeting.op = "generatePreparationTasks" =>
        \A i \in DOMAIN meeting.tasks :
           meeting.tasks[i].type = "document" =>
               \A p \in 1..PatternCount :
                  matchOf(p, meeting.tasks[i].url) = <<>>

----------------------------------------------------------------------------
(* The daily limit under overlapping cycles, checked under Spec             *)

\* C35: with a usage file that can be replaced, the request count stored
\* for a date never exceeds maxDailyRequests whatever the interleaving of
\* the cycles: the file changes only in a step that found canMakeRequest
\* true on the file it then replaces by recordRequest, so no other cycle
\* runs between the check and the record
C35_LastSlotTakenOnce ==
    /\ [](usageFile.writable /\ ioOK =>
             usageFile.requests <= maxDailyRequests)
    /\ [][usageFile' # usageFile =>
             /\ canMakeRequest(usageFile, ioOK, now)
             /\ \E type \in RequestTypes :
                   usageFile' = recordRequest(usageFile, ioOK, now, type)]_vars

\* a cycle awaits the call that took the last slot while the next cycle has
\* been refused by canMakeRequest
C35_Witness ==
    /\ usageFile.writable /\ ioOK
    /\ usageFile.requests = maxDailyRequests
    /\ cyc[1].pc = "insightsAwait"
    /\ recordsIn(cyc[1].log) = 1
    /\ \E i \in DOMAIN cyc[2].log :
          cyc[2].log[i] = Op("insights", "canMakeRequest", "false")

----------------------------------------------------------------------------
(* The usage file and the calls issued, checked under Spec                  *)

\* the advisory call a step issues: a cycle reaches the await of its send
issues(type) ==
    \E c \in 1..MaxCycles :
       /\ cyc[c].pc \notin {"insightsAwait", "prioAwait"}
       /\ cyc'[c].pc = IF type = "insights" THEN "insightsAwait"
                       ELSE "prioAwait"

\* C36: with a usage file that can be replaced, the stored counters follow
\* the advisory calls issued: a step that issues a call replaces the file
\* by the count of the current date plus one, and every other step (a cache
\* hit, a rate-limited return, a missing API key among them) leaves the file
\* and the number of recorded requests as they were
C36_CountFollowsIssuedCalls ==
    [][usageFile.writable /\ ioOK =>
          /\ \A type \in RequestTypes :
                issues(type) =>
                   /\ usageFile' = recordRequest(usageFile, ioOK, now, type)
                   /\ usageFile'.requests =
                          getUsageData(usageFile, ioOK, now).requests + 1
                   /\ recorded' = recorded + 1
          /\ (\A type \in RequestTypes : ~issues(type)) =>
                /\ usageFile' = usageFile
                /\ recorded' = recorded]_vars

\* the second cycle was answered from the cache after the first cycle's
\* insights call, the only call issued so far
C36_Witness ==
    /\ usageFile = [UsageOn(toDateString(StartOfRun), DocumentedDailyLimit, 12)
                       EXCEPT !.requests = @ + 1, !.insights = @ + 1]
    /\ recorded = 1
    /\ cyc[2].pc = "display"
    /\ cyc[2].log = <<Op("insights", "getCached", "hit")>>

----------------------------------------------------------------------------
(* What the advisory cache holds, checked under Spec                        *)

\* what the two calls return for a reply with status 200
successfulAnswers ==
    {insightsValue(reply) :
        reply \in {r \in InsightsReplies : r.status = "ok"}}
    \cup {prioritizationValue(reply).v :
             reply \in {r \in PrioritizationReplies : r.status = "ok"}}

\* what getClaudeInsights returns after a reply without status 200
failedAnswers ==
    {insightsValue(reply) :
        reply \in {r \in InsightsReplies : r.status # "ok"}}

\* C37: the advisory cache only ever holds what a call returned for a reply
\* with success status: an entry appears or changes only in the step that
\* ends an awaited call, under the key of that call, and its value is the
\* answer to a successful reply; a call that ended in a missing key, a rate
\* limit, an error status or an exception stores nothing, and every value
\* served from the cache is a successful answer
C37_OnlySuccessCached ==
    /\ [](\A key \in DOMAIN cache :
             /\ cache[key].data \in successfulAnswers
             /\ cache[key].data \notin failedAnswers)
    /\ [](published.advisory = "hit" =>
             published.ai.v \in successfulAnswers)
    /\ [][\A key \in DOMAIN cache' :
             (key \notin DOMAIN cache \/ cache'[key] # cache[key]) =>
                 \E c \in 1..MaxCycles :
                    /\ cyc[c].pc \in {"insightsAwait", "prioAwait"}
                    /\ cyc[c].key = key
                    /\ cyc'[c].pc \notin {"insightsAwait", "prioAwait"}
                    /\ cache'[key].timestamp = now]_vars
    /\ [][published'.advisory \in {"nokey", "limited", "httpError",
                                   "exception"}
             /\ published' # published
             => DOMAIN cache' \subseteq DOMAIN cache]_vars

\* the first cycle stored its insights and then got an error status for its
\* prioritization call, which left no entry
C37_Witness ==
    /\ published.cycle = 1
    /\ published.advisory = "httpError"
    /\ DOMAIN cache = {insightsKey(lastData.data, StartOfRun)}
    /\ DOMAIN stored = DOMAIN cache

----------------------------------------------------------------------------
(* Expired entries of the advisory cache, checked under SpecAdvisoryLive    *)

\* the keys the calls made at the start of a run compute
AdvisoryKeys ==
    {insightsKey(data, StartOfAdvisory) : data \in AdvisoryInputs}
    \cup {prioritizationKey(data, StartOfAdvisory) : data \in AdvisoryInputs}

\* the entry of the key is in the map and cacheTimeoutMinutes old or older
expiredInMap(key) ==
    /\ key \in DOMAIN cache
    /\ now - cache[key].timestamp >= cacheTimeoutMinutes * SecondsPerMinute

\* C38: while the pipeline keeps running (it makes advisory calls again and
\* again), every entry of the advisory cache whose age has reached
\* cacheTimeoutMinutes is eventually removed from the map; stated for the
\* entries stored under the keys of the start of the run
C38_ExpiredEntriesRemoved ==
    []<><<GetClaudeInsights \/ GetClaudePrioritization>>_vars =>
        \A key \in AdvisoryKeys :
           expiredInMap(key) ~> (key \notin DOMAIN cache)

----------------------------------------------------------------------------
(* Cycles in flight when the indicator is destroyed, checked under          *)
(* SpecLifecycle                                                            *)

\* destroy() has run
destroyed ==
    nextTimer = NoTimer

\* C39: once destroy() has run, no cycle writes to the panel label or the
\* menu items, none creates a calendar collector, and no cycle is started
C39_NothingAfterDestroy ==
    [][destroyed =>
          /\ buttonText' = buttonText
          /\ published' = published
          /\ lastData' = lastData
          /\ collector' = NoCollector
          /\ started' = started]_vars

----------------------------------------------------------------------------
(* The "starting" line of the fallback ladder, checked under SpecArbiter    *)

\* the ladder showed the first event of the calendar as starting
showsStarting ==
    /\ fellBack
    /\ Len(lastData.data.calendar) > 0
    /\ buttonText = <<":siren: ">> \o lastData.data.calendar[1].title
                        \o <<" starting">>

\* C40: the "starting" line of the fallback ladder is shown only for an
\* event that has not ended when the line is computed
C40_StartingOnlyBeforeEnd ==
    showsStarting => lastData.data.calendar[1].end > published.at

====
